---- MODULE Spec2Model ----
(***************************************************************************)
(* A model of the gabe Game Boy emulator core: the SM83 CPU of             *)
(* src/src/cpu.rs (registers, opcode tables, Cpu::tick and its helpers).   *)
(* The MMU the CPU borrows on every tick is not part of the sources at     *)
(* hand; it is modelled from the address map of the specification          *)
(* (section 4.2) for a cartridge without a bank controller.  The LCD       *)
(* controller is the Vram of src/src/core/vram.rs.                         *)
(***************************************************************************)
EXTENDS Integers, Sequences, FiniteSets, TLC

(***************************************************************************)
(* Bounds of the model.                                                    *)
(***************************************************************************)
\* Number of Cpu::tick calls made on one run.
MaxTicks == 3

\* Number of direct Registers::set_xx calls made on one run.
MaxSets == 1

\* Number of direct stack_push / stack_pop calls made on one run.
MaxStackOps == 2

\* Number of times Cpu::rl is applied to its own result on one run.
MaxRl == 3

\* Cycles handed to Vram::update on one free run of the LCD: one frame of
\* 154 lines of 456 dots and one line more.
MaxDots == 70680

VARIABLES
    reg,          \* Cpu.reg : Registers (a, f, b, c, d, e, h, l, sp, pc)
    ime,          \* Cpu.ime
    halted,       \* Cpu.halted
    ram,          \* Mmu: bytes written so far, address -> byte
    inte,         \* Mmu: IE register (0xFFFF)
    intf,         \* Mmu: IF register (0xFF0F), low 5 bits
    prog,         \* cartridge ROM: the bytes found from 0x0100 on
    debug_build,  \* TRUE when the build checks integer overflow
    cycles,       \* value returned by the last Cpu::tick
    opcode,       \* opcode fetched by the last Cpu::tick (-1 before the first)
    aborted,      \* TRUE once a tick has panicked
    ticks,        \* number of Cpu::tick calls so far
    calls,        \* direct calls of Registers / Cpu helpers made so far
    vram,         \* the Vram struct
    last,         \* the last call made on the Vram: fn, addr, ret
    dots,         \* cycles handed to Vram::update since power-on
    host          \* main() of gabe_cli: its place in the loop, its locals
                  \* target_emu_time_ns and target_emu_cycles,
                  \* Emulator.emulated_cycles, the last count step returned

vars == <<reg, ime, halted, ram, inte, intf, prog, debug_build,
          cycles, opcode, aborted, ticks, calls, vram, last, dots, host>>

(***************************************************************************)
(* Bytes, words and bitwise operations on u8.                              *)
(***************************************************************************)
Byte == 0..255

Bit(x, i) == (x \div (2^i)) % 2

And8(x, y) ==
    Bit(x,0)*Bit(y,0) + 2*Bit(x,1)*Bit(y,1) + 4*Bit(x,2)*Bit(y,2)
    + 8*Bit(x,3)*Bit(y,3) + 16*Bit(x,4)*Bit(y,4) + 32*Bit(x,5)*Bit(y,5)
    + 64*Bit(x,6)*Bit(y,6) + 128*Bit(x,7)*Bit(y,7)

Or8(x, y) == x + y - And8(x, y)

Xor8(x, y) == x + y - 2 * And8(x, y)

\* `as i8 as u16`: sign extension of a byte to 16 bits
SignExt(v) == IF v >= 128 THEN 65280 + v ELSE v

(***************************************************************************)
(* enum Flag: masks of the flag bits of register F.                        *)
(***************************************************************************)
FlagZ == 128
FlagN == 64
FlagH == 32
FlagC == 16

(***************************************************************************)
(* Registers: pair accessors and flag helpers.  m is the machine record    *)
(* threaded through one tick: the registers, ime, halted, the MMU state,   *)
(* abort (a panic happened) and cond (cond_cycles).                        *)
(***************************************************************************)
get_af(m) == m.a * 256 + m.f
get_bc(m) == m.b * 256 + m.c
get_de(m) == m.d * 256 + m.e
get_hl(m) == m.h * 256 + m.l

set_af(m, val) == [m EXCEPT !.a = val \div 256, !.f = val % 256]
set_bc(m, val) == [m EXCEPT !.b = val \div 256, !.c = val % 256]
set_de(m, val) == [m EXCEPT !.d = val \div 256, !.e = val % 256]
set_hl(m, val) == [m EXCEPT !.h = val \div 256, !.l = val % 256]

get_flag(m, fl) == And8(m.f, fl) # 0

set_flag(m, fl, v) ==
    IF v THEN [m EXCEPT !.f = Or8(@, fl)]
         ELSE [m EXCEPT !.f = And8(@, 255 - fl)]

(***************************************************************************)
(* Integer overflow of `+=`, `-=`, `+` and `-` on u16: a build with        *)
(* overflow checks panics, a build without them wraps.                     *)
(***************************************************************************)
Overflows(x) == x < 0 \/ x > 65535

Wrap16(x) == x % 65536

\* the machine after an unchecked u16 operation whose exact result is x
Checked(m, x) == IF Overflows(x) /\ debug_build THEN [m EXCEPT !.abort = TRUE] ELSE m

(***************************************************************************)
(* OPCODE_TABLE: base cycle count of every primary opcode.                 *)
(***************************************************************************)
OPCODE_TABLE == <<
    4,12, 8, 8, 4, 4, 8, 4,20, 8, 8, 8, 4, 4, 8, 4,
    4,12, 8, 8, 4, 4, 8, 4,12, 8, 8, 8, 4, 4, 8, 4,
    8,12, 8, 8, 4, 4, 8, 4, 8, 8, 8, 8, 4, 4, 8, 4,
    8,12, 8, 8,12,12,12, 4, 8, 8, 8, 8, 4, 4, 8, 4,
    4, 4, 4, 4, 4, 4, 8, 4, 4, 4, 4, 4, 4, 4, 8, 4,
    4, 4, 4, 4, 4, 4, 8, 4, 4, 4, 4, 4, 4, 4, 8, 4,
    4, 4, 4, 4, 4, 4, 8, 4, 4, 4, 4, 4, 4, 4, 8, 4,
    8, 8, 8, 8, 8, 8, 4, 8, 4, 4, 4, 4, 4, 4, 8, 4,
    4, 4, 4, 4, 4, 4, 8, 4, 4, 4, 4, 4, 4, 4, 8, 4,
    4, 4, 4, 4, 4, 4, 8, 4, 4, 4, 4, 4, 4, 4, 8, 4,
    4, 4, 4, 4, 4, 4, 8, 4, 4, 4, 4, 4, 4, 4, 8, 4,
    4, 4, 4, 4, 4, 4, 8, 4, 4, 4, 4, 4, 4, 4, 8, 4,
    8,12,12,16,12,16, 8,16, 8,16,12, 4,12,24, 8,16,
    8,12,12, 0,12,16, 8,16, 8,16,12, 0,12, 0, 8,16,
   12,12, 8, 0, 0,16, 8,16,16, 4,16, 0, 0, 0, 8,16,
   12,12, 8, 4, 0,16, 8,16,12, 8,16, 4, 0, 0, 8,16 >>

\* OPCODE_TABLE[opcode as usize] (Rust indexes from 0)
BaseCycles(op) == OPCODE_TABLE[op + 1]

(***************************************************************************)
(* The MMU, from the address map of the specification: a cartridge with    *)
(* ROM only (writes to 0x0000-0x7FFF and 0xA000-0xBFFF are dropped), work  *)
(* RAM with its echo, high RAM, IF and IE.  Every other address is a       *)
(* byte that reads back what was written.                                  *)
(***************************************************************************)
EntryPoint == 256

\* unwritten ROM and RAM bytes
FillByte == 0

RomByte(addr) ==
    IF addr >= EntryPoint /\ addr < EntryPoint + Len(prog)
    THEN prog[addr - EntryPoint + 1]
    ELSE FillByte

RamByte(m, addr) == IF addr \in DOMAIN m.ram THEN m.ram[addr] ELSE FillByte

read_byte(m, addr) ==
    CASE addr < \h8000                      -> RomByte(addr)
      [] addr \in \hA000..\hBFFF            -> \hFF
      [] addr \in \hE000..\hFDFF            -> RamByte(m, addr - \h2000)
      [] addr \in \hFEA0..\hFEFF            -> \hFF
      [] addr = \hFF0F                      -> \hE0 + m.intf
      [] addr = \hFFFF                      -> m.inte
      [] OTHER                              -> RamByte(m, addr)

Store(m, addr, v) == [m EXCEPT !.ram = (addr :> v) @@ @]

write_byte(m, addr, v) ==
    CASE addr < \h8000                      -> m
      [] addr \in \hA000..\hBFFF            -> m
      [] addr \in \hE000..\hFDFF            -> Store(m, addr - \h2000, v)
      [] addr \in \hFEA0..\hFEFF            -> m
      [] addr = \hFF0F                      -> [m EXCEPT !.intf = v % 32]
      [] addr = \hFFFF                      -> [m EXCEPT !.inte = v]
      [] OTHER                              -> Store(m, addr, v)

\* little-endian composites of two byte operations
read_word(m, addr) ==
    read_byte(m, addr) + 256 * read_byte(m, Wrap16(addr + 1))

write_word(m, addr, v) ==
    write_byte(write_byte(m, addr, v % 256), Wrap16(addr + 1), v \div 256)

(***************************************************************************)
(* Cpu helpers: operand fetch and the stack.  An operator that returns a   *)
(* value and changes the machine yields the record [v, m].                 *)
(***************************************************************************)
imm(m) ==
    [v |-> read_byte(m, m.pc),
     m |-> Checked([m EXCEPT !.pc = Wrap16(m.pc + 1)], m.pc + 1)]

imm_word(m) ==
    LET lo == imm(m)
        hi == imm(lo.m)
    IN  [v |-> hi.v * 256 + lo.v, m |-> hi.m]

\* stack_push that writes the word before it moves SP
stack_push_WriteFirst(m, v) ==
    LET m1 == write_word(m, m.sp, v)
    IN  Checked([m1 EXCEPT !.sp = Wrap16(m.sp - 2)], m.sp - 2)

stack_push(m, v) ==
    LET m1 == Checked([m EXCEPT !.sp = Wrap16(m.sp - 2)], m.sp - 2)
    IN  write_word(m1, m1.sp, v)

stack_pop(m) ==
    [v |-> read_word(m, m.sp),
     m |-> Checked([m EXCEPT !.sp = Wrap16(m.sp + 2)], m.sp + 2)]

(***************************************************************************)
(* 8-bit ALU.                                                              *)
(***************************************************************************)
CarryIn(m) == IF get_flag(m, FlagC) THEN 1 ELSE 0

add(m, r) ==
    LET v  == (m.a + r) % 256
        m1 == set_flag(m, FlagZ, v = 0)
        m2 == set_flag(m1, FlagN, FALSE)
        m3 == set_flag(m2, FlagH, And8(m.a, \h0F) + And8(r, \h0F) > \h0F)
        m4 == set_flag(m3, FlagC, m.a + r > \hFF)
    IN  [m4 EXCEPT !.a = v]

adc(m, r) ==
    LET c  == CarryIn(m)
        v  == (m.a + r + c) % 256
        m1 == set_flag(m, FlagZ, v = 0)
        m2 == set_flag(m1, FlagN, FALSE)
        m3 == set_flag(m2, FlagH,
                       And8(m.a, \h0F) + And8(r, \h0F) + And8(c, \h0F) > \h0F)
        m4 == set_flag(m3, FlagC, m.a + r + c > \hFF)
    IN  [m4 EXCEPT !.a = v]

sub(m, r) ==
    LET v  == (m.a - r) % 256
        m1 == set_flag(m, FlagZ, v = 0)
        m2 == set_flag(m1, FlagN, TRUE)
        m3 == set_flag(m2, FlagH, And8(m.a, \h0F) < And8(r, \h0F))
        m4 == set_flag(m3, FlagC, m.a < r)
    IN  [m4 EXCEPT !.a = v]

\* SBC that leaves the carry-in out of the two borrow tests
sbc_NoCarryInBorrow(m, r) ==
    LET c  == CarryIn(m)
        v  == (m.a - r - c) % 256
        m1 == set_flag(m, FlagZ, v = 0)
        m2 == set_flag(m1, FlagN, TRUE)
        m3 == set_flag(m2, FlagH, And8(m.a, \h0F) < And8(r, \h0F))
        m4 == set_flag(m3, FlagC, m.a < r)
    IN  [m4 EXCEPT !.a = v]

sbc(m, r) ==
    LET c  == CarryIn(m)
        v  == (m.a - r - c) % 256
        m1 == set_flag(m, FlagZ, v = 0)
        m2 == set_flag(m1, FlagN, TRUE)
        m3 == set_flag(m2, FlagH, And8(m.a, \h0F) < And8(r, \h0F) + And8(c, \h0F))
        m4 == set_flag(m3, FlagC, m.a < r + c)
    IN  [m4 EXCEPT !.a = v]

and(m, r) ==
    LET v  == And8(m.a, r)
        m1 == set_flag(m, FlagZ, v = 0)
        m2 == set_flag(m1, FlagN, FALSE)
        m3 == set_flag(m2, FlagH, TRUE)
        m4 == set_flag(m3, FlagC, FALSE)
    IN  [m4 EXCEPT !.a = v]

xor(m, r) ==
    LET v  == Xor8(m.a, r)
        m1 == set_flag(m, FlagZ, v = 0)
        m2 == set_flag(m1, FlagN, FALSE)
        m3 == set_flag(m2, FlagH, FALSE)
        m4 == set_flag(m3, FlagC, FALSE)
    IN  [m4 EXCEPT !.a = v]

or(m, r) ==
    LET v  == Or8(m.a, r)
        m1 == set_flag(m, FlagZ, v = 0)
        m2 == set_flag(m1, FlagN, FALSE)
        m3 == set_flag(m2, FlagH, FALSE)
        m4 == set_flag(m3, FlagC, FALSE)
    IN  [m4 EXCEPT !.a = v]

cp(m, r) == [sub(m, r) EXCEPT !.a = m.a]

\* INC that also writes the carry flag, as ADD does
inc_WritesCarry(m, r) ==
    LET v  == (r + 1) % 256
        m1 == set_flag(m, FlagZ, v = 0)
        m2 == set_flag(m1, FlagN, FALSE)
        m3 == set_flag(m2, FlagH, And8(r, \h0F) + 1 > \h0F)
        m4 == set_flag(m3, FlagC, r + 1 > \hFF)
    IN  [v |-> v, m |-> m4]

inc(m, r) ==
    LET v  == (r + 1) % 256
        m1 == set_flag(m, FlagZ, v = 0)
        m2 == set_flag(m1, FlagN, FALSE)
        m3 == set_flag(m2, FlagH, And8(r, \h0F) + 1 > \h0F)
    IN  [v |-> v, m |-> m3]

\* r.trailing_zeros() >= 4: the low four bits of r are all zero
dec(m, r) ==
    LET v  == (r - 1) % 256
        m1 == set_flag(m, FlagZ, v = 0)
        m2 == set_flag(m1, FlagN, TRUE)
        m3 == set_flag(m2, FlagH, r % 16 = 0)
    IN  [v |-> v, m |-> m3]

(***************************************************************************)
(* 16-bit ALU.                                                             *)
(***************************************************************************)
\* ADD SP,r8 with the carry taken out of bit 15 of the 16-bit sum
add_sp_Carry16(m) ==
    LET i  == imm(m)
        v  == SignExt(i.v)
        m1 == set_flag(i.m, FlagZ, FALSE)
        m2 == set_flag(m1, FlagN, FALSE)
        m3 == set_flag(m2, FlagH, (i.m.sp % 16) + (v % 16) > \h0F)
        m4 == set_flag(m3, FlagC, i.m.sp + v > \hFFFF)
    IN  [m4 EXCEPT !.sp = Wrap16(i.m.sp + v)]

add_sp(m) ==
    LET i  == imm(m)
        v  == SignExt(i.v)
        m1 == set_flag(i.m, FlagZ, FALSE)
        m2 == set_flag(m1, FlagN, FALSE)
        m3 == set_flag(m2, FlagH, (i.m.sp % 16) + (v % 16) > \h0F)
        m4 == set_flag(m3, FlagC, (i.m.sp % 256) + (v % 256) > \hFF)
    IN  [m4 EXCEPT !.sp = Wrap16(i.m.sp + v)]

add_hl(m, r) ==
    LET hl == get_hl(m)
        m1 == set_flag(m, FlagN, FALSE)
        m2 == set_flag(m1, FlagH, (r % 16) + (hl % 16) > \h0F)
        m3 == set_flag(m2, FlagC, (r % 256) + (hl % 256) > \hFF)
    IN  set_hl(m3, Wrap16(hl + r))

\* Cpu::rl: r.rotate_left(1) ORed with the carry flag
rl(m, r) ==
    LET v  == Or8(((r * 2) % 256) + (r \div 128), IF get_flag(m, FlagC) THEN 1 ELSE 0)
        m1 == set_flag(m, FlagZ, v = 0)
        m2 == set_flag(m1, FlagN, FALSE)
        m3 == set_flag(m2, FlagH, FALSE)
    IN  [m |-> set_flag(m3, FlagC, (r \div 128) = 1), v |-> v]

(***************************************************************************)
(* Operand decoding of the match arms of Cpu::tick.  The arms of a family  *)
(* are listed one by one in the source; here the operand is decoded from   *)
(* the opcode bits: 0 b, 1 c, 2 d, 3 e, 4 h, 5 l, 6 (HL), 7 a.             *)
(***************************************************************************)
GetR8(m, i) ==
    CASE i = 0 -> m.b
      [] i = 1 -> m.c
      [] i = 2 -> m.d
      [] i = 3 -> m.e
      [] i = 4 -> m.h
      [] i = 5 -> m.l
      [] i = 6 -> read_byte(m, get_hl(m))
      [] i = 7 -> m.a

SetR8(m, i, v) ==
    CASE i = 0 -> [m EXCEPT !.b = v]
      [] i = 1 -> [m EXCEPT !.c = v]
      [] i = 2 -> [m EXCEPT !.d = v]
      [] i = 3 -> [m EXCEPT !.e = v]
      [] i = 4 -> [m EXCEPT !.h = v]
      [] i = 5 -> [m EXCEPT !.l = v]
      [] i = 6 -> write_byte(m, get_hl(m), v)
      [] i = 7 -> [m EXCEPT !.a = v]

\* register pairs of LD r16,d16 / INC r16 / DEC r16 / ADD HL,r16: bc, de, hl, sp
GetR16(m, i) ==
    CASE i = 0 -> get_bc(m)
      [] i = 1 -> get_de(m)
      [] i = 2 -> get_hl(m)
      [] i = 3 -> m.sp

SetR16(m, i, v) ==
    CASE i = 0 -> set_bc(m, v)
      [] i = 1 -> set_de(m, v)
      [] i = 2 -> set_hl(m, v)
      [] i = 3 -> [m EXCEPT !.sp = v]

\* the eight ALU functions of 0x80-0xBF and of the d8 forms
Alu(m, k, r) ==
    CASE k = 0 -> add(m, r)
      [] k = 1 -> adc(m, r)
      [] k = 2 -> sub(m, r)
      [] k = 3 -> sbc(m, r)
      [] k = 4 -> and(m, r)
      [] k = 5 -> xor(m, r)
      [] k = 6 -> or(m, r)
      [] k = 7 -> cp(m, r)

\* condition of JP/JR/CALL/RET cc: 0 NZ, 1 Z, 2 NC, 3 C
CondHolds(m, op) ==
    LET k == (op \div 8) % 4
    IN  CASE k = 0 -> ~get_flag(m, FlagZ)
          [] k = 1 -> get_flag(m, FlagZ)
          [] k = 2 -> ~get_flag(m, FlagC)
          [] k = 3 -> get_flag(m, FlagC)

(***************************************************************************)
(* Opcode families of the match in Cpu::tick.                              *)
(***************************************************************************)
LdR8D8   == {\h06, \h0E, \h16, \h1E, \h26, \h2E, \h36, \h3E}
LdR16D16 == {\h01, \h11, \h21, \h31}
AluD8    == {\hC6, \hCE, \hD6, \hDE, \hE6, \hEE, \hF6, \hFE}
AddHl    == {\h09, \h19, \h29, \h39}
IncR8    == {\h04, \h0C, \h14, \h1C, \h24, \h2C, \h34, \h3C}
DecR8    == {\h05, \h0D, \h15, \h1D, \h25, \h2D, \h35, \h3D}
IncR16   == {\h03, \h13, \h23, \h33}
DecR16   == {\h0B, \h1B, \h2B, \h3B}
JpCc     == {\hC2, \hD2, \hCA, \hDA}
JrCc     == {\h20, \h30, \h28, \h38}
CallCc   == {\hC4, \hCC, \hD4, \hDC}
RetCc    == {\hC0, \hC8, \hD0, \hD8}
Rst      == {\hC7, \hCF, \hD7, \hDF, \hE7, \hEF, \hF7, \hFF}

\* opcodes with no arm of their own: they reach `_ => panic!`
NoArm ==
    {\h07, \h0F, \h17, \h1F, \h27, \h2F, \h37, \h3F,
     \hD3, \hDB, \hDD, \hE0, \hE2, \hE3, \hE4, \hEA, \hEB, \hEC, \hED,
     \hF0, \hF2, \hF4, \hF8, \hFA, \hFC, \hFD}

Panic(m) == [m EXCEPT !.abort = TRUE]

\* a default arm that ignores the opcode instead of panicking
OpNoArm_Ignore(m) == m

\* _ => panic!("Unsupported or unimplemented opcode ...")
OpNoArm(m) == Panic(m)

\* 0x76 => self.halted = true (the first of the two 0x76 arms is the one taken)
OpHalt(m) == [m EXCEPT !.halted = TRUE]

\* 0x10 => unimplemented!("STOP not implemented")
OpStop(m) == Panic(m)

\* 0xF3 => self.ime = false
OpDi(m) == [m EXCEPT !.ime = FALSE]

\* 0xFB => self.ime = true
OpEi(m) == [m EXCEPT !.ime = TRUE]

\* 0xCB: the prefixed opcode is fetched, then every value panics
OpCb(m) == Panic(imm(m).m)

OpLdR8D8(m, op) ==
    LET i == imm(m) IN SetR8(i.m, (op - \h06) \div 8, i.v)

OpLdR16D16(m, op) ==
    LET w == imm_word(m) IN SetR16(w.m, (op - \h01) \div 16, w.v)

\* 0x08: LD (a16),SP
OpLdA16Sp(m) ==
    LET w == imm_word(m) IN write_word(w.m, w.v, w.m.sp)

\* 0x22, 0x32, 0x2A, 0x3A: LD (HL+),A  LD (HL-),A  LD A,(HL+)  LD A,(HL-)
\* `v + 1` and `v - 1` are unchecked u16 operations
OpLdHlStep(m, op) ==
    LET v  == get_hl(m)
        d  == IF op \in {\h22, \h2A} THEN 1 ELSE -1
        m1 == IF op \in {\h22, \h32} THEN write_byte(m, v, m.a)
                                     ELSE [m EXCEPT !.a = read_byte(m, v)]
    IN  Checked(set_hl(m1, Wrap16(v + d)), v + d)

OpIncR8(m, op) ==
    LET i == (op - \h04) \div 8
        r == inc(m, GetR8(m, i))
    IN  SetR8(r.m, i, r.v)

OpDecR8(m, op) ==
    LET i == (op - \h05) \div 8
        r == dec(m, GetR8(m, i))
    IN  SetR8(r.m, i, r.v)

\* 0xC1, 0xD1, 0xE1: POP BC / DE / HL
OpPop(m, op) ==
    LET p == stack_pop(m)
    IN  CASE op = \hC1 -> set_bc(p.m, p.v)
          [] op = \hD1 -> set_de(p.m, p.v)
          [] op = \hE1 -> set_hl(p.m, p.v)

\* 0xF1: POP AF
OpPopAf(m) ==
    LET p == stack_pop(m) IN set_af(p.m, p.v)

\* 0xC5, 0xD5, 0xE5, 0xF5: PUSH BC / DE / HL / AF
OpPush(m, op) ==
    LET v == CASE op = \hC5 -> get_bc(m)
               [] op = \hD5 -> get_de(m)
               [] op = \hE5 -> get_hl(m)
               [] op = \hF5 -> get_af(m)
    IN  stack_push(m, v)

\* 0xC3: JP a16
OpJp(m) ==
    LET w == imm_word(m) IN [w.m EXCEPT !.pc = w.v]

OpJpCc(m, op) ==
    LET w == imm_word(m)
    IN  IF CondHolds(w.m, op) THEN [w.m EXCEPT !.pc = w.v, !.cond = 4] ELSE w.m

\* 0x18: JR r8
OpJr(m) ==
    LET i == imm(m) IN [i.m EXCEPT !.pc = Wrap16(i.m.pc + SignExt(i.v))]

OpJrCc(m, op) ==
    LET i == imm(m)
    IN  IF CondHolds(i.m, op)
        THEN [i.m EXCEPT !.pc = Wrap16(i.m.pc + SignExt(i.v)), !.cond = 4]
        ELSE i.m

\* 0xCD: CALL a16
OpCall(m) ==
    LET w == imm_word(m) IN [stack_push(w.m, w.m.pc) EXCEPT !.pc = w.v]

\* CALL cc with the extra of JP cc
OpCallCc_JpExtra(m, op) ==
    LET w == imm_word(m)
    IN  IF CondHolds(w.m, op)
        THEN [stack_push(w.m, w.m.pc) EXCEPT !.pc = w.v, !.cond = 4]
        ELSE w.m

OpCallCc(m, op) ==
    LET w == imm_word(m)
    IN  IF CondHolds(w.m, op)
        THEN [stack_push(w.m, w.m.pc) EXCEPT !.pc = w.v, !.cond = 12]
        ELSE w.m

\* RET written as a copy of the RETI arm
OpRet_AsReti(m) ==
    LET p == stack_pop(m) IN [p.m EXCEPT !.pc = p.v, !.ime = TRUE]

\* 0xC9: RET
OpRet(m) ==
    LET p == stack_pop(m) IN [p.m EXCEPT !.pc = p.v]

OpRetCc(m, op) ==
    IF CondHolds(m, op)
    THEN LET p == stack_pop(m) IN [p.m EXCEPT !.pc = p.v, !.cond = 12]
    ELSE m

\* 0xD9: RETI
OpReti(m) ==
    LET p == stack_pop(m) IN [p.m EXCEPT !.pc = p.v, !.ime = TRUE]

OpRst(m, op) == [stack_push(m, m.pc) EXCEPT !.pc = op - \hC7]

(***************************************************************************)
(* The match of Cpu::tick on the fetched opcode.                           *)
(***************************************************************************)
Exec(m, op) ==
    CASE op = \h00 -> m
      [] op = \h76 -> OpHalt(m)
      [] op = \h10 -> OpStop(m)
      [] op = \hF3 -> OpDi(m)
      [] op = \hFB -> OpEi(m)
      [] op \in LdR8D8 -> OpLdR8D8(m, op)
      [] op = \h02 -> write_byte(m, get_bc(m), m.a)
      [] op = \h12 -> write_byte(m, get_de(m), m.a)
      [] op = \h0A -> [m EXCEPT !.a = read_byte(m, get_bc(m))]
      [] op = \h1A -> [m EXCEPT !.a = read_byte(m, get_de(m))]
      [] op \in {\h22, \h32, \h2A, \h3A} -> OpLdHlStep(m, op)
      [] op \in (\h40..\h7F) \ {\h76} ->
            SetR8(m, (op - \h40) \div 8, GetR8(m, op % 8))
      [] op \in LdR16D16 -> OpLdR16D16(m, op)
      [] op = \h08 -> OpLdA16Sp(m)
      [] op = \hF9 -> [m EXCEPT !.sp = get_hl(m)]
      [] op \in \h80..\hBF -> Alu(m, (op - \h80) \div 8, GetR8(m, op % 8))
      [] op \in AluD8 ->
            LET i == imm(m) IN Alu(i.m, (op - \hC6) \div 8, i.v)
      [] op = \hE8 -> add_sp(m)
      [] op \in AddHl -> add_hl(m, GetR16(m, (op - \h09) \div 16))
      [] op \in IncR8 -> OpIncR8(m, op)
      [] op \in DecR8 -> OpDecR8(m, op)
      [] op \in IncR16 ->
            LET i == (op - \h03) \div 16 IN SetR16(m, i, Wrap16(GetR16(m, i) + 1))
      [] op \in DecR16 ->
            LET i == (op - \h0B) \div 16 IN SetR16(m, i, Wrap16(GetR16(m, i) - 1))
      [] op \in {\hC1, \hD1, \hE1} -> OpPop(m, op)
      [] op = \hF1 -> OpPopAf(m)
      [] op \in {\hC5, \hD5, \hE5, \hF5} -> OpPush(m, op)
      [] op = \hC3 -> OpJp(m)
      [] op = \hE9 -> [m EXCEPT !.pc = get_hl(m)]
      [] op \in JpCc -> OpJpCc(m, op)
      [] op = \h18 -> OpJr(m)
      [] op \in JrCc -> OpJrCc(m, op)
      [] op = \hCD -> OpCall(m)
      [] op \in CallCc -> OpCallCc(m, op)
      [] op = \hC9 -> OpRet(m)
      [] op \in RetCc -> OpRetCc(m, op)
      [] op = \hD9 -> OpReti(m)
      [] op \in Rst -> OpRst(m, op)
      [] op = \hCB -> OpCb(m)
      [] op \in NoArm -> OpNoArm(m)

(***************************************************************************)
(* Cpu::tick: fetch, execute, return the cycle count.                      *)
(***************************************************************************)
Machine ==
    [a |-> reg.a, f |-> reg.f, b |-> reg.b, c |-> reg.c, d |-> reg.d,
     e |-> reg.e, h |-> reg.h, l |-> reg.l, sp |-> reg.sp, pc |-> reg.pc,
     ime |-> ime, halted |-> halted, ram |-> ram, inte |-> inte, intf |-> intf,
     abort |-> FALSE, cond |-> 0]

RegsOf(m) ==
    [a |-> m.a, f |-> m.f, b |-> m.b, c |-> m.c, d |-> m.d,
     e |-> m.e, h |-> m.h, l |-> m.l, sp |-> m.sp, pc |-> m.pc]

\* fetch, then the match, then the return value; the sets of one element make
\* each step a value that is computed once
tick(m) ==
    CHOOSE t \in {[m |-> r, op |-> fetch.v, ret |-> BaseCycles(fetch.v) + r.cond] :
                   <<fetch, r>> \in {<<f, Exec(f.m, f.v)>> : f \in {imm(m)}}} : TRUE

Tick ==
    /\ ~aborted
    /\ ticks < MaxTicks
    /\ \E t \in {tick(Machine)} :
           /\ opcode' = t.op
           /\ aborted' = t.m.abort
           /\ IF t.m.abort
              THEN UNCHANGED <<reg, ime, halted, ram, inte, intf, cycles>>
              ELSE /\ reg' = RegsOf(t.m)
                   /\ ime' = t.m.ime
                   /\ halted' = t.m.halted
                   /\ ram' = t.m.ram
                   /\ inte' = t.m.inte
                   /\ intf' = t.m.intf
                   /\ cycles' = t.ret
    /\ ticks' = ticks + 1
    /\ UNCHANGED <<prog, debug_build, calls, vram, last, dots, host>>

(***************************************************************************)
(* The LCD controller.  Lcdc and Stat are the two bit-field registers,     *)
(* LCDMode is the number of the mode (0 H-Blank, 1 V-Blank, 2 OAM search,  *)
(* 3 transfer), InterruptKind is the name of the interrupt.  screen_data   *)
(* is never written (draw_background and draw_sprites are empty) and is    *)
(* left out.                                                               *)
(***************************************************************************)
Lcdc_power_on ==
    [lcd_enable |-> TRUE, window_tile_map_select |-> FALSE, window_enable |-> FALSE,
     tile_data_select |-> TRUE, background_tile_map_select |-> FALSE,
     obj_size_select |-> FALSE, obj_enable |-> FALSE, background_enable |-> TRUE]

Lcdc_write_byte(val) ==
    [lcd_enable |-> Bit(val, 7) # 0, window_tile_map_select |-> Bit(val, 6) # 0,
     window_enable |-> Bit(val, 5) # 0, tile_data_select |-> Bit(val, 4) # 0,
     background_tile_map_select |-> Bit(val, 3) # 0, obj_size_select |-> Bit(val, 2) # 0,
     obj_enable |-> Bit(val, 1) # 0, background_enable |-> Bit(val, 0) # 0]

\* Lcdc::read_byte with bit 7 left out of the byte
Lcdc_read_byte_NoBit7(l) ==
    LET b(x) == IF x THEN 1 ELSE 0
    IN  64 * b(l.window_tile_map_select) + 32 * b(l.window_enable)
        + 16 * b(l.tile_data_select) + 8 * b(l.background_tile_map_select)
        + 4 * b(l.obj_size_select) + 2 * b(l.obj_enable) + b(l.background_enable)

Lcdc_read_byte(l) ==
    LET b(x) == IF x THEN 1 ELSE 0
    IN  128 * b(l.lcd_enable) + 64 * b(l.window_tile_map_select)
        + 32 * b(l.window_enable) + 16 * b(l.tile_data_select)
        + 8 * b(l.background_tile_map_select) + 4 * b(l.obj_size_select)
        + 2 * b(l.obj_enable) + b(l.background_enable)

Stat_power_on ==
    [lyc_ly_interrupt |-> FALSE, oam_interrupt |-> FALSE, vblank_interrupt |-> FALSE,
     hblank_interrupt |-> FALSE, lyc_ly_flag |-> FALSE, mode_flag |-> 2]

\* Stat::write_byte taking only the four enable bits from the byte, the
\* coincidence flag and the mode staying as at power-on
Stat_write_byte_EnablesOnly(val) ==
    [lyc_ly_interrupt |-> Bit(val, 6) # 0, oam_interrupt |-> Bit(val, 5) # 0,
     vblank_interrupt |-> Bit(val, 4) # 0, hblank_interrupt |-> Bit(val, 3) # 0,
     lyc_ly_flag |-> FALSE, mode_flag |-> 2]

Stat_write_byte(val) ==
    [lyc_ly_interrupt |-> Bit(val, 6) # 0, oam_interrupt |-> Bit(val, 5) # 0,
     vblank_interrupt |-> Bit(val, 4) # 0, hblank_interrupt |-> Bit(val, 3) # 0,
     lyc_ly_flag |-> Bit(val, 2) # 0, mode_flag |-> val % 4]

Stat_read_byte(st) ==
    LET b(x) == IF x THEN 1 ELSE 0
    IN  64 * b(st.lyc_ly_interrupt) + 32 * b(st.oam_interrupt)
        + 16 * b(st.vblank_interrupt) + 8 * b(st.hblank_interrupt)
        + 4 * b(st.lyc_ly_flag) + st.mode_flag

\* color0..color3, all White
PaletteData_init == <<0, 0, 0, 0>>

\* color i is (val >> (i * 2)) & 0b11; element i + 1 of the tuple
PaletteData_write_byte(val) == [i \in 1..4 |-> (val \div (4^(i - 1))) % 4]

PaletteData_read_byte(pal) == pal[4] * 64 + pal[3] * 16 + pal[2] * 4 + pal[1]

Vram_power_on ==
    [lcdc |-> Lcdc_power_on, stat |-> Stat_power_on, scroll_coords |-> <<0, 0>>,
     ly |-> 0, lyc |-> 0, bgp |-> PaletteData_init, obp0 |-> PaletteData_init,
     obp1 |-> PaletteData_init, window_coords |-> <<0, 0>>, scanline_cycles |-> 0,
     memory |-> [x \in {} |-> 0]]

\* a contains that never finds the kind
Contains_Never(interrupts, kind) == FALSE

\* a contains that always finds the kind
Contains_Always(interrupts, kind) == TRUE

\* interrupts.contains(&kind)
Contains(interrupts, kind) == \E i \in 1..Len(interrupts) : interrupts[i] = kind

\* Vram::update with a mode 3 window that is empty: mode 2 up to dot 80,
\* then mode 0
update_SkipsMode3(v, cyc) ==
    IF ~v.lcdc.lcd_enable \/ cyc = 0
    THEN [v |-> v, ret |-> <<>>]
    ELSE LET sum  == v.scanline_cycles + cyc
             wrap == sum >= 456
             sc   == IF wrap THEN sum % 456 ELSE sum
             ly   == IF wrap THEN (v.ly + 1) % 153 ELSE v.ly
             flag == IF wrap THEN ly = v.lyc ELSE v.stat.lyc_ly_flag
             i1   == IF wrap /\ flag /\ v.stat.lyc_ly_interrupt
                     THEN <<"LcdStat">> ELSE <<>>
             mode == IF ly >= 144 THEN 1
                     ELSE IF sc <= 80 THEN 2
                     ELSE IF sc <= 80 THEN 3
                     ELSE 0
             i2   == IF mode = v.stat.mode_flag THEN i1
                     ELSE IF mode = 1
                     THEN LET i == Append(i1, "VBlank")
                          IN  IF v.stat.vblank_interrupt /\ ~Contains(i, "LcdStat")
                              THEN Append(i, "VBlank") ELSE i
                     ELSE IF mode = 2
                     THEN IF v.stat.oam_interrupt /\ ~Contains(i1, "LcdStat")
                          THEN Append(i1, "LcdStat") ELSE i1
                     ELSE IF mode = 3
                     THEN i1
                     ELSE IF v.stat.hblank_interrupt /\ ~Contains(i1, "LcdStat")
                          THEN Append(i1, "LcdStat") ELSE i1
         IN  [v   |-> [v EXCEPT !.scanline_cycles = sc, !.ly = ly,
                                !.stat.lyc_ly_flag = flag, !.stat.mode_flag = mode],
              ret |-> i2]

\* Vram::update without the test of lcdc.lcd_enable
update_IgnoresLcdEnable(v, cyc) ==
    IF cyc = 0
    THEN [v |-> v, ret |-> <<>>]
    ELSE LET sum  == v.scanline_cycles + cyc
             wrap == sum >= 456
             sc   == IF wrap THEN sum % 456 ELSE sum
             ly   == IF wrap THEN (v.ly + 1) % 153 ELSE v.ly
             flag == IF wrap THEN ly = v.lyc ELSE v.stat.lyc_ly_flag
             i1   == IF wrap /\ flag /\ v.stat.lyc_ly_interrupt
                     THEN <<"LcdStat">> ELSE <<>>
             mode == IF ly >= 144 THEN 1
                     ELSE IF sc <= 80 THEN 2
                     ELSE IF sc <= 80 + 172 THEN 3
                     ELSE 0
             i2   == IF mode = v.stat.mode_flag THEN i1
                     ELSE IF mode = 1
                     THEN LET i == Append(i1, "VBlank")
                          IN  IF v.stat.vblank_interrupt /\ ~Contains(i, "LcdStat")
                              THEN Append(i, "VBlank") ELSE i
                     ELSE IF mode = 2
                     THEN IF v.stat.oam_interrupt /\ ~Contains(i1, "LcdStat")
                          THEN Append(i1, "LcdStat") ELSE i1
                     ELSE IF mode = 3
                     THEN i1
                     ELSE IF v.stat.hblank_interrupt /\ ~Contains(i1, "LcdStat")
                          THEN Append(i1, "LcdStat") ELSE i1
         IN  [v   |-> [v EXCEPT !.scanline_cycles = sc, !.ly = ly,
                                !.stat.lyc_ly_flag = flag, !.stat.mode_flag = mode],
              ret |-> i2]

\* Vram::update: the Vram after the call and the interrupts it returns
\* (<<>> for None)
update(v, cyc) ==
    IF ~v.lcdc.lcd_enable \/ cyc = 0
    THEN [v |-> v, ret |-> <<>>]
    ELSE LET sum  == v.scanline_cycles + cyc
             wrap == sum >= 456
             sc   == IF wrap THEN sum % 456 ELSE sum
             ly   == IF wrap THEN (v.ly + 1) % 153 ELSE v.ly
             flag == IF wrap THEN ly = v.lyc ELSE v.stat.lyc_ly_flag
             i1   == IF wrap /\ flag /\ v.stat.lyc_ly_interrupt
                     THEN <<"LcdStat">> ELSE <<>>
             mode == IF ly >= 144 THEN 1
                     ELSE IF sc <= 80 THEN 2
                     ELSE IF sc <= 80 + 172 THEN 3
                     ELSE 0
             i2   == IF mode = v.stat.mode_flag THEN i1
                     ELSE IF mode = 1
                     THEN LET i == Append(i1, "VBlank")
                          IN  IF v.stat.vblank_interrupt /\ ~Contains(i, "LcdStat")
                              THEN Append(i, "VBlank") ELSE i
                     ELSE IF mode = 2
                     THEN IF v.stat.oam_interrupt /\ ~Contains(i1, "LcdStat")
                          THEN Append(i1, "LcdStat") ELSE i1
                     ELSE IF mode = 3
                     THEN i1
                     ELSE IF v.stat.hblank_interrupt /\ ~Contains(i1, "LcdStat")
                          THEN Append(i1, "LcdStat") ELSE i1
         IN  [v   |-> [v EXCEPT !.scanline_cycles = sc, !.ly = ly,
                                !.stat.lyc_ly_flag = flag, !.stat.mode_flag = mode],
              ret |-> i2]

\* the addresses the match of Vram::read_byte / write_byte has an arm for
VramAddrs ==
    (\h8000..\h9FFF) \cup (\hFF40..\hFF45) \cup {\hFF4A, \hFF4B}

\* Vram::write_byte with an LY arm that stores the value written
Vram_write_byte_LyStores(v, addr, val) ==
    CASE addr \in \h8000..\h9FFF -> [v EXCEPT !.memory = ((addr - \h8000) :> val) @@ @]
      [] addr = \hFF40 -> [v EXCEPT !.lcdc = Lcdc_write_byte(val)]
      [] addr = \hFF41 -> [v EXCEPT !.stat = Stat_write_byte(val)]
      [] addr = \hFF42 -> [v EXCEPT !.scroll_coords[2] = val]
      [] addr = \hFF43 -> [v EXCEPT !.scroll_coords[1] = val]
      [] addr = \hFF44 -> [v EXCEPT !.ly = val]
      [] addr = \hFF45 -> [v EXCEPT !.lyc = val]
      [] addr = \hFF4A -> [v EXCEPT !.window_coords[2] = val]
      [] addr = \hFF4B -> [v EXCEPT !.window_coords[1] = val]
      [] OTHER -> v

\* Vram::write_byte; an address without an arm panics (the Vram is left as
\* it was)
Vram_write_byte(v, addr, val) ==
    CASE addr \in \h8000..\h9FFF -> [v EXCEPT !.memory = ((addr - \h8000) :> val) @@ @]
      [] addr = \hFF40 -> [v EXCEPT !.lcdc = Lcdc_write_byte(val)]
      [] addr = \hFF41 -> [v EXCEPT !.stat = Stat_write_byte(val)]
      [] addr = \hFF42 -> [v EXCEPT !.scroll_coords[2] = val]
      [] addr = \hFF43 -> [v EXCEPT !.scroll_coords[1] = val]
      [] addr = \hFF44 -> [v EXCEPT !.ly = 0]
      [] addr = \hFF45 -> [v EXCEPT !.lyc = val]
      [] addr = \hFF4A -> [v EXCEPT !.window_coords[2] = val]
      [] addr = \hFF4B -> [v EXCEPT !.window_coords[1] = val]
      [] OTHER -> v

\* Vram::read_byte; an address without an arm panics and returns nothing
\* (-1 here)
Vram_read_byte(v, addr) ==
    CASE addr \in \h8000..\h9FFF ->
            IF (addr - \h8000) \in DOMAIN v.memory THEN v.memory[addr - \h8000] ELSE 0
      [] addr = \hFF40 -> Lcdc_read_byte(v.lcdc)
      [] addr = \hFF41 -> Stat_read_byte(v.stat)
      [] addr = \hFF42 -> v.scroll_coords[2]
      [] addr = \hFF43 -> v.scroll_coords[1]
      [] addr = \hFF44 -> v.ly
      [] addr = \hFF45 -> v.lyc
      [] addr = \hFF4A -> v.window_coords[2]
      [] addr = \hFF4B -> v.window_coords[1]
      [] OTHER -> -1

\* Vram::request_frame: TRUE for Some(screen_data), FALSE for None
request_frame(v) == v.stat.mode_flag = 1

\* no call made on the Vram yet
NoCall == [fn |-> "power_on", addr |-> 0, ret |-> <<>>]

(***************************************************************************)
(* Power-on state.  The cartridge is the input: its code at the entry      *)
(* point is a short lead-in followed by an arbitrary opcode and two        *)
(* operand bytes.  IE and IF hold what the devices and earlier writes left *)
(* there.                                                                  *)
(***************************************************************************)
\* main() before its loop: Emulator::power_on leaves emulated_cycles at 0
\* and no time has been read
Emulator_power_on ==
    [pc |-> "loop", target_emu_time_ns |-> 0, target_emu_cycles |-> 0,
     emulated_cycles |-> 0, step_ret |-> 0]

Registers_power_on ==
    [a |-> \h01, f |-> \hB0, b |-> \h00, c |-> \h13, d |-> \h00,
     e |-> \hD8, h |-> \h01, l |-> \h4D, sp |-> \hFFFE, pc |-> \h0100]

\* lead-ins: none, AND A, XOR A, EI, HALT, PUSH DE, PUSH DE then POP AF
Prefixes == {<<>>, <<\hA7>>, <<\hAF>>, <<\hFB>>, <<\h76>>, <<\hD5>>, <<\hD5, \hF1>>}

\* operand bytes
ImmVals == {\h02, \hC0}

Programs ==
    {p \o <<op, x, y>> : p \in Prefixes, op \in Byte, x \in ImmVals, y \in ImmVals}

\* <<IE, IF>>
IntChoices == {<<\h00, \h00>>, <<\h05, \h04>>}

Init ==
    /\ reg = Registers_power_on
    /\ ime = FALSE
    /\ halted = FALSE
    /\ ram = [x \in {} |-> 0]
    /\ \E ch \in IntChoices : inte = ch[1] /\ intf = ch[2]
    /\ prog \in Programs
    /\ debug_build \in BOOLEAN
    /\ cycles = 0
    /\ opcode = -1
    /\ aborted = FALSE
    /\ ticks = 0
    /\ calls = <<>>
    /\ vram = Vram_power_on
    /\ last = NoCall
    /\ dots = 0
    /\ host = Emulator_power_on

Next == Tick

Spec == Init /\ [][Next]_vars

(***************************************************************************)
(* Direct calls of the register-pair setters: the argument is drawn from   *)
(* WordVals, the getter of the same pair is read back afterwards.          *)
(***************************************************************************)
WordVals ==
    {hi * 256 + lo : hi \in {\h00, \h12, \h80, \hFF},
                     lo \in {\h00, \h01, \h0F, \h34, \h80, \hF0, \hFF}}

PairNames == {"af", "bc", "de", "hl"}

SetPair(m, pair, v) ==
    CASE pair = "af" -> set_af(m, v)
      [] pair = "bc" -> set_bc(m, v)
      [] pair = "de" -> set_de(m, v)
      [] pair = "hl" -> set_hl(m, v)

GetPair(m, pair) ==
    CASE pair = "af" -> get_af(m)
      [] pair = "bc" -> get_bc(m)
      [] pair = "de" -> get_de(m)
      [] pair = "hl" -> get_hl(m)

CallSet(pair, v) ==
    /\ Len(calls) < MaxSets
    /\ \E m \in {SetPair(Machine, pair, v)} :
           /\ reg' = RegsOf(m)
           /\ calls' = Append(calls, [fn |-> pair, arg |-> v, ret |-> GetPair(m, pair),
                                      sp |-> reg.sp])
    /\ UNCHANGED <<ime, halted, ram, inte, intf, prog, debug_build,
                   cycles, opcode, aborted, ticks, vram, last, dots, host>>

InitRegs ==
    /\ reg = Registers_power_on
    /\ ime = FALSE
    /\ halted = FALSE
    /\ ram = [x \in {} |-> 0]
    /\ inte = 0
    /\ intf = 0
    /\ prog = <<>>
    /\ debug_build \in BOOLEAN
    /\ cycles = 0
    /\ opcode = -1
    /\ aborted = FALSE
    /\ ticks = 0
    /\ calls = <<>>
    /\ vram = Vram_power_on
    /\ last = NoCall
    /\ dots = 0
    /\ host = Emulator_power_on

NextRegs == \E pair \in PairNames, v \in WordVals : CallSet(pair, v)

SpecRegs == InitRegs /\ [][NextRegs]_vars

(***************************************************************************)
(* Direct calls of Cpu::stack_push and Cpu::stack_pop from a CPU whose SP  *)
(* was loaded with one of SpVals.                                          *)
(***************************************************************************)
\* stack pointers: high RAM, work RAM and its echo, and the edges around them
SpVals == {\hFFFE, \hFF82, \hFF81, \hE000, \hD000, \hC002, \hC001, \hC000,
           \h0100, \h0001}

PushVals == {\h0000, \h0001, \h00D8, \h1234, \h8000, \hFF00, \hFFFF}

CallPush(v) ==
    /\ ~aborted
    /\ Len(calls) < MaxStackOps
    /\ \E m \in {stack_push(Machine, v)} :
           /\ aborted' = m.abort
           /\ calls' = Append(calls, [fn |-> "stack_push", arg |-> v, ret |-> 0,
                                      sp |-> reg.sp])
           /\ IF m.abort THEN UNCHANGED <<reg, ram, inte, intf>>
              ELSE /\ reg' = RegsOf(m)
                   /\ ram' = m.ram
                   /\ inte' = m.inte
                   /\ intf' = m.intf
    /\ UNCHANGED <<ime, halted, prog, debug_build, cycles, opcode, ticks,
                   vram, last, dots, host>>

CallPop ==
    /\ ~aborted
    /\ Len(calls) < MaxStackOps
    /\ \E p \in {stack_pop(Machine)} :
           /\ aborted' = p.m.abort
           /\ calls' = Append(calls, [fn |-> "stack_pop", arg |-> 0, ret |-> p.v,
                                      sp |-> reg.sp])
           /\ IF p.m.abort THEN UNCHANGED reg ELSE reg' = RegsOf(p.m)
    /\ UNCHANGED <<ime, halted, ram, inte, intf, prog, debug_build,
                   cycles, opcode, ticks, vram, last, dots, host>>

InitStack ==
    /\ \E s \in SpVals : reg = [Registers_power_on EXCEPT !.sp = s]
    /\ ime = FALSE
    /\ halted = FALSE
    /\ ram = [x \in {} |-> 0]
    /\ inte = 0
    /\ intf = 0
    /\ prog = <<>>
    /\ debug_build \in BOOLEAN
    /\ cycles = 0
    /\ opcode = -1
    /\ aborted = FALSE
    /\ ticks = 0
    /\ calls = <<>>
    /\ vram = Vram_power_on
    /\ last = NoCall
    /\ dots = 0
    /\ host = Emulator_power_on

NextStack == (\E v \in PushVals : CallPush(v)) \/ CallPop

SpecStack == InitStack /\ [][NextStack]_vars

(***************************************************************************)
(* The ALU instructions run from chosen register contents: the first       *)
(* instruction of the cartridge is an 8-bit INC / DEC / SUB / SBC / CP     *)
(* with A, F and the operand registers drawn from AluVals and FVals, or a  *)
(* 16-bit ADD HL,rr / ADD SP,r8 with BC = DE = SP and HL drawn byte by     *)
(* byte.  The byte after the opcode is the immediate operand.              *)
(***************************************************************************)
AluVals == {\h00, \h01, \h0F, \h10, \hF0, \hFF}

\* F before the instruction: no flag, C, Z N H, all four
FVals == {\h00, \h10, \hE0, \hF0}

AluOps8 == IncR8 \cup DecR8 \cup (\h90..\h9F) \cup (\hB8..\hBF) \cup {\hD6, \hDE, \hFE}

AluOps16 == AddHl \cup {\hE8}

InitAlu ==
    /\ \E fv \in FVals :
          \/ \E op \in AluOps8, av \in AluVals, x \in AluVals :
                /\ reg = [Registers_power_on EXCEPT !.a = av, !.f = fv, !.b = x, !.c = x,
                                                    !.d = x, !.e = x, !.h = x, !.l = x]
                /\ prog = <<op, x>>
          \/ \E op \in AluOps16, x \in AluVals, y \in AluVals, u \in AluVals, v \in AluVals :
                /\ reg = [Registers_power_on EXCEPT !.f = fv, !.b = x, !.c = y, !.d = x,
                                                    !.e = y, !.h = u, !.l = v,
                                                    !.sp = x * 256 + y]
                /\ prog = <<op, v>>
    /\ ime = FALSE
    /\ halted = FALSE
    /\ ram = [x \in {} |-> 0]
    /\ inte = 0
    /\ intf = 0
    /\ debug_build \in BOOLEAN
    /\ cycles = 0
    /\ opcode = -1
    /\ aborted = FALSE
    /\ ticks = 0
    /\ calls = <<>>
    /\ vram = Vram_power_on
    /\ last = NoCall
    /\ dots = 0
    /\ host = Emulator_power_on

SpecAlu == InitAlu /\ [][Next]_vars

(***************************************************************************)
(* The LCD controller driven directly: Vram::update with a cycle count     *)
(* from UpdateCycles and CPU writes to LCDC, STAT, LY, LYC, BGP and the    *)
(* first byte of VRAM, in any order, from power-on.  A write the match of  *)
(* Vram::write_byte has no arm for panics: the run is aborted.             *)
(***************************************************************************)
CpuVars == <<reg, ime, halted, ram, inte, intf, prog, debug_build,
             cycles, opcode, ticks, calls>>

\* nothing, a third of a line, a line, two lines
UpdateCycles == {0, 152, 456, 912}

WriteAddrs == {\h8000, \hFF40, \hFF41, \hFF44, \hFF45, \hFF47}

\* LCDC: LCD on, LCD off.  STAT: no enable bit and mode 0, the V-Blank
\* enable and mode 1, every bit.  LY: any byte.  LYC: line 0, line 144.
\* VRAM: two bytes other than the 0 it holds at power-on.  BGP: the usual
\* palette, colours 3, 2, 1, 0.
WriteVals(addr) ==
    CASE addr = \h8000 -> {\h5A, \hA5}
      [] addr = \hFF40 -> {\h91, \h11}
      [] addr = \hFF41 -> {\h00, \h11, \h7F}
      [] addr = \hFF44 -> {\h00, \h99, \hFF}
      [] addr = \hFF45 -> {0, 144}
      [] addr = \hFF47 -> {\hE4}

Update(cyc) ==
    /\ ~aborted
    /\ \E r \in {update(vram, cyc)} :
           /\ vram' = r.v
           /\ last' = [fn |-> "update", addr |-> 0, ret |-> r.ret]
    /\ UNCHANGED <<CpuVars, aborted, dots, host>>

WriteByte(addr, val) ==
    /\ ~aborted
    /\ aborted' = (addr \notin VramAddrs)
    /\ vram' = Vram_write_byte(vram, addr, val)
    /\ last' = [fn |-> "write_byte", addr |-> addr, ret |-> <<>>]
    /\ UNCHANGED <<CpuVars, dots, host>>

InitPpu ==
    /\ reg = Registers_power_on
    /\ ime = FALSE
    /\ halted = FALSE
    /\ ram = [x \in {} |-> 0]
    /\ inte = 0
    /\ intf = 0
    /\ prog = <<>>
    /\ debug_build = FALSE
    /\ cycles = 0
    /\ opcode = -1
    /\ aborted = FALSE
    /\ ticks = 0
    /\ calls = <<>>
    /\ vram = Vram_power_on
    /\ last = NoCall
    /\ dots = 0
    /\ host = Emulator_power_on

NextPpu ==
    \/ \E cyc \in UpdateCycles : Update(cyc)
    \/ \E addr \in WriteAddrs : \E val \in WriteVals(addr) : WriteByte(addr, val)

SpecPpu == InitPpu /\ [][NextPpu]_vars

(***************************************************************************)
(* The LCD running free: the game has written STAT and LYC once, the LCD   *)
(* is on, and from then on the only calls are Vram::update with the cycle  *)
(* count of a CPU instruction.                                             *)
(***************************************************************************)
\* cycle counts of one instruction
CpuSteps == {4, 8, 12, 16, 20, 24}

\* STAT as written before the run: mode bits 2 (the mode at power-on), the
\* coincidence bit clear, and no enable bit, V-Blank, LYC, LYC and V-Blank,
\* OAM and H-Blank, all four
StatSetups == {\h02, \h12, \h42, \h52, \h2A, \h7A}

LycSetups == {0, 144}

Advance(cyc) ==
    /\ ~aborted
    /\ dots + cyc <= MaxDots
    /\ \E r \in {update(vram, cyc)} :
           /\ vram' = r.v
           /\ last' = [fn |-> "update", addr |-> 0, ret |-> r.ret]
    /\ dots' = dots + cyc
    /\ UNCHANGED <<CpuVars, aborted, host>>

InitFrame ==
    /\ reg = Registers_power_on
    /\ ime = FALSE
    /\ halted = FALSE
    /\ ram = [x \in {} |-> 0]
    /\ inte = 0
    /\ intf = 0
    /\ prog = <<>>
    /\ debug_build = FALSE
    /\ cycles = 0
    /\ opcode = -1
    /\ aborted = FALSE
    /\ ticks = 0
    /\ calls = <<>>
    /\ \E st \in StatSetups, lyc \in LycSetups :
          vram = Vram_write_byte(Vram_write_byte(Vram_power_on, \hFF41, st), \hFF45, lyc)
    /\ last = NoCall
    /\ dots = 0
    /\ host = Emulator_power_on

NextFrame == \E cyc \in CpuSteps : Advance(cyc)

SpecFrame == InitFrame /\ [][NextFrame]_vars

(***************************************************************************)
(* The register structs called directly, as the unit tests do: one         *)
(* write_byte on the Lcdc, the Stat or one of the three PaletteData of a   *)
(* Vram at power-on, then read_byte on the same struct.                    *)
(***************************************************************************)
RegStructs == {"lcdc", "stat", "bgp", "obp0", "obp1"}

DirectWrite(name, val) ==
    /\ calls = <<>>
    /\ \E w \in {CASE name = "lcdc" -> [vram EXCEPT !.lcdc = Lcdc_write_byte(val)]
                   [] name = "stat" -> [vram EXCEPT !.stat = Stat_write_byte(val)]
                   [] name = "bgp"  -> [vram EXCEPT !.bgp = PaletteData_write_byte(val)]
                   [] name = "obp0" -> [vram EXCEPT !.obp0 = PaletteData_write_byte(val)]
                   [] name = "obp1" -> [vram EXCEPT !.obp1 = PaletteData_write_byte(val)]} :
           /\ vram' = w
           /\ calls' = <<[fn  |-> name,
                          arg |-> val,
                          ret |-> CASE name = "lcdc" -> Lcdc_read_byte(w.lcdc)
                                    [] name = "stat" -> Stat_read_byte(w.stat)
                                    [] name = "bgp"  -> PaletteData_read_byte(w.bgp)
                                    [] name = "obp0" -> PaletteData_read_byte(w.obp0)
                                    [] name = "obp1" -> PaletteData_read_byte(w.obp1)]>>
    /\ UNCHANGED <<reg, ime, halted, ram, inte, intf, prog, debug_build,
                   cycles, opcode, aborted, ticks, last, dots, host>>

NextLcdRegs == \E name \in RegStructs, val \in Byte : DirectWrite(name, val)

SpecLcdRegs == InitPpu /\ [][NextLcdRegs]_vars

(***************************************************************************)
(* Subroutine calls: the cartridge holds, after an optional lead-in, a     *)
(* CALL to the RET placed four bytes further on, with a NOP at the return  *)
(* address in between, or a single RST.  SP is drawn from CallSps.         *)
(***************************************************************************)
\* lead-ins: none, NOP, AND A (which clears Z and C)
CallPrefixes == {<<>>, <<\h00>>, <<\hA7>>}

\* top of high RAM (power-on), end of work RAM through its echo, work RAM
CallSps == {\hFFFE, \hE000, \hC002}

CallPrograms ==
    {pre \o <<op, 4 + Len(pre), 1, \h00, \hC9>> :
        pre \in CallPrefixes, op \in {\hCD} \cup CallCc}
    \cup {pre \o <<op>> : pre \in CallPrefixes, op \in Rst}

InitCall ==
    /\ \E s \in CallSps : reg = [Registers_power_on EXCEPT !.sp = s]
    /\ ime = FALSE
    /\ halted = FALSE
    /\ ram = [x \in {} |-> 0]
    /\ inte = 0
    /\ intf = 0
    /\ prog \in CallPrograms
    /\ debug_build \in BOOLEAN
    /\ cycles = 0
    /\ opcode = -1
    /\ aborted = FALSE
    /\ ticks = 0
    /\ calls = <<>>
    /\ vram = Vram_power_on
    /\ last = NoCall
    /\ dots = 0
    /\ host = Emulator_power_on

SpecCall == InitCall /\ [][Next]_vars

(***************************************************************************)
(* The LCD controller stepped by any cycle count a Cpu::tick can be billed *)
(* for, multiple of 4 or not, with no register write: every reachable      *)
(* (LY, scanline_cycles) pair, without a dot counter.                      *)
(***************************************************************************)
ModeCycles == 1..24

NextModes == \E cyc \in ModeCycles : Update(cyc)

SpecModes == InitPpu /\ [][NextModes]_vars

(***************************************************************************)
(* Direct calls of Cpu::rl, as in rl_test: the first on any byte, each     *)
(* later one on the value the call before returned.  F before the first    *)
(* call is the power-on 0xB0 or one of FVals.                              *)
(***************************************************************************)
CallRl(r) ==
    /\ Len(calls) < MaxRl
    /\ IF calls = <<>> THEN TRUE ELSE r = calls[Len(calls)].ret
    /\ \E x \in {rl(Machine, r)} :
           /\ reg' = RegsOf(x.m)
           /\ calls' = Append(calls, [fn  |-> "rl",
                                      arg |-> r,
                                      cin |-> IF get_flag(reg, FlagC) THEN 1 ELSE 0,
                                      ret |-> x.v,
                                      f   |-> x.m.f])
    /\ UNCHANGED <<ime, halted, ram, inte, intf, prog, debug_build,
                   cycles, opcode, aborted, ticks, vram, last, dots, host>>

InitRl ==
    /\ \E f \in FVals \cup {Registers_power_on.f} :
           reg = [Registers_power_on EXCEPT !.f = f]
    /\ ime = FALSE
    /\ halted = FALSE
    /\ ram = [x \in {} |-> 0]
    /\ inte = 0
    /\ intf = 0
    /\ prog = <<>>
    /\ debug_build = FALSE
    /\ cycles = 0
    /\ opcode = -1
    /\ aborted = FALSE
    /\ ticks = 0
    /\ calls = <<>>
    /\ vram = Vram_power_on
    /\ last = NoCall
    /\ dots = 0
    /\ host = Emulator_power_on

NextRl == \E r \in Byte : CallRl(r)

SpecRl == InitRl /\ [][NextRl]_vars

(***************************************************************************)
(* The host: the main loop of gabe_cli with the debugger off.  Each        *)
(* iteration reads the clock, turns the elapsed time into a cycle target   *)
(* and steps the Gameboy until emulated_cycles reaches it, then sleeps.    *)
(* Gameboy::step is not part of this source tree: it runs one Cpu::tick    *)
(* and returns its cycle count, or does not return when the tick panics.   *)
(***************************************************************************)
EmuVars == <<reg, ime, halted, ram, inte, intf, prog, debug_build,
             cycles, opcode, aborted, ticks, calls, vram, last, dots>>

\* clock readings since start_time_ns, in ns: none, about 4, 10, 657 and
\* 658 cycles; all below 2^18, where u64 -> f32 is exact
ElapsedNs == {0, 1000, 2385, 156641, 157000}

\* (target_emu_time_ns as f32 / CYCLE_TIME_NS).floor() as u64.  The f32
\* nearest to 238.41858 is 1953125 / 8192, so the exact quotient is
\* ns * 8192 / 1953125; the f32 division rounds it to 24 significant bits,
\* to the nearest multiple of 2^(k - 23) for a quotient in [2^k, 2^(k + 1)),
\* and floor() is taken of the rounded value.
target_emu_cycles(ns) ==
    LET num == ns * 8192
        den == 1953125
        fl  == num \div den
        r   == num % den
        k   == CHOOSE e \in 0..23 : 2 ^ e <= fl /\ fl < 2 ^ (e + 1)
    IN  IF fl = 0 THEN 0
        ELSE IF den - r <= den \div (2 ^ (24 - k)) THEN fl + 1
        ELSE fl

\* a step count of 0 and nothing else
StepCycles_Zero == {0}

\* the counts a Cpu::tick that returns can return: OPCODE_TABLE[opcode] +
\* cond_cycles for the opcodes that have an arm
StepCycles ==
    {BaseCycles(op) + cc : <<op, cc>> \in
        {<<o, c>> \in (Byte \ NoArm) \X {0, 4, 12} :
            \/ c = 0
            \/ c = 4 /\ o \in JpCc \cup JrCc
            \/ c = 12 /\ o \in CallCc \cup RetCc}}

\* top of `while window.is_open()`: read the clock, compute the target
Iterate(ns) ==
    /\ host.pc = "loop"
    /\ ns >= host.target_emu_time_ns
    /\ host' = [host EXCEPT !.pc = "catch_up",
                            !.target_emu_time_ns = ns,
                            !.target_emu_cycles = target_emu_cycles(ns),
                            !.step_ret = 0]
    /\ UNCHANGED EmuVars

\* body of `while emu.emulated_cycles < target_emu_cycles`
Step(c) ==
    /\ host.pc = "catch_up"
    /\ host.emulated_cycles < host.target_emu_cycles
    /\ host' = [host EXCEPT !.emulated_cycles = @ + c, !.step_ret = c]
    /\ UNCHANGED EmuVars

\* the tick inside step panics: the process ends
StepPanics ==
    /\ host.pc = "catch_up"
    /\ host.emulated_cycles < host.target_emu_cycles
    /\ host' = [host EXCEPT !.pc = "panicked"]
    /\ UNCHANGED EmuVars

\* the inner loop is left: append the audio, sleep, next iteration
Sleep ==
    /\ host.pc = "catch_up"
    /\ host.emulated_cycles >= host.target_emu_cycles
    /\ host' = [host EXCEPT !.pc = "loop"]
    /\ UNCHANGED EmuVars

NextHost ==
    \/ \E ns \in ElapsedNs : Iterate(ns)
    \/ \E c \in StepCycles : Step(c)
    \/ StepPanics
    \/ Sleep

SpecHost == InitPpu /\ [][NextHost]_vars

\* the host thread keeps running: a step that can return does return
FairSpecHost == SpecHost /\ WF_vars(\E c \in StepCycles : Step(c))

(***************************************************************************)
(* Properties.                                                             *)
(***************************************************************************)
\* a Cpu::tick call was made in this step
Ticked == ticks' = ticks + 1

\* the tick of this step returned a cycle count
Returned == Ticked /\ ~aborted'

\* IE & IF has one of the five interrupt bits set
Pending == And8(inte, intf) % 32 # 0

\* lowest-numbered bit set in IE & IF
LowestPending ==
    CHOOSE i \in 0..4 : /\ Bit(And8(inte, intf), i) = 1
                        /\ \A j \in 0..(i - 1) : Bit(And8(inte, intf), j) = 0

\* C1: with IME=1 and IE & IF != 0 the next tick dispatches the interrupt:
\* it returns 20 cycles, clears the lowest pending IF bit and no other,
\* clears IME, pushes PC (SP decreases by 2, the word at the new SP is the
\* old PC) and sets PC to the vector 0x40 + 8 * bit; no register other than
\* SP and PC changes, because no opcode is executed.
C1_InterruptDispatch ==
    [][(ime /\ Pending /\ Ticked) =>
          /\ ~aborted'
          /\ cycles' = 20
          /\ intf' = intf - 2^LowestPending
          /\ ime' = FALSE
          /\ reg'.sp = Wrap16(reg.sp - 2)
          /\ reg'.pc = \h40 + 8 * LowestPending
          /\ reg' = [reg EXCEPT !.sp = reg'.sp, !.pc = reg'.pc]
      ]_vars

\* C2: once halted is set, a tick that dispatches no interrupt returns 4
\* cycles, leaves PC and IME alone, and leaves halted set exactly when
\* IE & IF == 0.
C2_HaltIdle ==
    [][(halted /\ ~(ime /\ Pending) /\ Ticked) =>
          /\ ~aborted'
          /\ cycles' = 4
          /\ reg'.pc = reg.pc
          /\ ime' = ime
          /\ halted' = ~Pending
      ]_vars

\* C3: EI executed with IME=0 returns with IME still 0; IME is 1 after the
\* instruction that follows the EI has executed (unless that one is DI).
C3_EiDelayed ==
    [][/\ (~ime /\ Returned /\ opcode' = \hFB) => ~ime'
       /\ (~ime /\ opcode = \hFB /\ Returned /\ opcode' # \hF3) => ime'
      ]_vars

\* C4: a tick that executes an opcode other than EI (0xFB), DI (0xF3) and
\* RETI (0xD9) returns with IME as it was before the tick.
C4_ImeFrame ==
    [][(Returned /\ opcode' \notin {\hFB, \hF3, \hD9}) => ime' = ime]_vars

\* C4 witness: an opcode other than EI/DI/RETI has returned with IME set
C4_Witness ==
    /\ ticks = 2
    /\ ~aborted
    /\ ime
    /\ opcode \notin {\hFB, \hF3, \hD9}

\* C5: the low 4 bits of F are zero at power-on and after every tick.
C5_FLowNibbleZero == reg.f % 16 = 0

\* C6: after set_bc/set_de/set_hl(v) the high register holds v >> 8, the low
\* register v & 0xFF and the getter returns v; after set_af(v) A holds
\* v >> 8 and get_af() returns v & 0xFFF0.
C6_PairRoundTrip ==
    Len(calls) > 0 =>
        LET c == calls[Len(calls)]
        IN  /\ c.fn = "bc" => reg.b = c.arg \div 256 /\ reg.c = c.arg % 256
                              /\ c.ret = c.arg
            /\ c.fn = "de" => reg.d = c.arg \div 256 /\ reg.e = c.arg % 256
                              /\ c.ret = c.arg
            /\ c.fn = "hl" => reg.h = c.arg \div 256 /\ reg.l = c.arg % 256
                              /\ c.ret = c.arg
            /\ c.fn = "af" => reg.a = c.arg \div 256
                              /\ c.ret = c.arg - (c.arg % 16)

\* the two bytes a push from sp writes lie in work RAM or in high RAM
InRam(addr) == addr \in \hC000..\hDFFF \/ addr \in \hFF80..\hFFFE

StackInRam(sp) == sp >= 2 /\ InRam(sp - 2) /\ InRam(sp - 1)

\* C7: when the two bytes below SP are writable RAM, stack_push(v) returns
\* with SP two lower and the word v at SP (low byte first); a stack_pop()
\* made right after it starts from that SP, returns v and leaves SP as it
\* was before the push.
C7_StackRoundTrip ==
    \A i \in 1..Len(calls) :
        (calls[i].fn = "stack_push" /\ StackInRam(calls[i].sp)) =>
            /\ i = Len(calls) =>
                  /\ ~aborted
                  /\ reg.sp = calls[i].sp - 2
                  /\ read_byte(Machine, reg.sp) = calls[i].arg % 256
                  /\ read_byte(Machine, reg.sp + 1) = calls[i].arg \div 256
            /\ (i < Len(calls) /\ calls[i + 1].fn = "stack_pop") =>
                  /\ calls[i + 1].sp = calls[i].sp - 2
                  /\ calls[i + 1].ret = calls[i].arg
                  /\ i + 1 = Len(calls) => ~aborted /\ reg.sp = calls[i].sp

\* C7 witness: a non-zero word was pushed onto a stack in RAM and popped
C7_Witness ==
    /\ Len(calls) = 2
    /\ calls[1].fn = "stack_push"
    /\ calls[2].fn = "stack_pop"
    /\ StackInRam(calls[1].sp)
    /\ calls[1].arg = \h1234
    /\ ~aborted

\* C8: a tick that returns, returns between 1 and 24 cycles.
C8_CycleRange == (ticks > 0 /\ ~aborted) => cycles \in 1..24

\* C8 witness: CALL a16, the largest entry of the table, has returned
C8_Witness == ~aborted /\ opcode = \hCD /\ cycles = 24

\* the condition of a cc opcode, read from F before the tick
TakenBefore(op) ==
    CASE op \in {\h20, \hC0, \hC2, \hC4} -> Bit(reg.f, 7) = 0
      [] op \in {\h28, \hC8, \hCA, \hCC} -> Bit(reg.f, 7) = 1
      [] op \in {\h30, \hD0, \hD2, \hD4} -> Bit(reg.f, 4) = 0
      [] op \in {\h38, \hD8, \hDA, \hDC} -> Bit(reg.f, 4) = 1
      [] OTHER -> FALSE

ExpectedExtra(op) ==
    CASE op \in {\hC2, \hD2, \hCA, \hDA, \h20, \h30, \h28, \h38} /\ TakenBefore(op) -> 4
      [] op \in {\hC4, \hCC, \hD4, \hDC} /\ TakenBefore(op) -> 12
      [] op \in {\hC0, \hC8, \hD0, \hD8} /\ TakenBefore(op) -> 12
      [] OTHER -> 0

\* C9: a returning tick returns the table entry of its opcode plus 4 for a
\* taken JP cc / JR cc, plus 12 for a taken CALL cc or RET cc, plus 0
\* otherwise; a not-taken JP cc / CALL cc advances PC by 3 and a not-taken
\* CALL cc / RET cc leaves SP unchanged.
C9_CondExtras ==
    [][Returned =>
          /\ cycles' = OPCODE_TABLE[opcode' + 1] + ExpectedExtra(opcode')
          /\ (opcode' \in {\hC2, \hD2, \hCA, \hDA, \hC4, \hCC, \hD4, \hDC}
                /\ ~TakenBefore(opcode')) => reg'.pc = reg.pc + 3
          /\ (opcode' \in {\hC4, \hCC, \hD4, \hDC, \hC0, \hC8, \hD0, \hD8}
                /\ ~TakenBefore(opcode')) => reg'.sp = reg.sp
      ]_vars

\* C9 witness: a taken CALL cc has returned 12 + 12 cycles with the return
\* address on the stack
C9_Witness ==
    /\ ~aborted
    /\ opcode \in {\hC4, \hCC, \hD4, \hDC}
    /\ cycles = 24
    /\ reg.sp = \hFFFC

\* the eleven opcodes the SM83 leaves undefined
UndefinedOpcodes ==
    {\hD3, \hDB, \hDD, \hE3, \hE4, \hEB, \hEC, \hED, \hF4, \hFC, \hFD}

\* C10: in a build without overflow checks a tick aborts only on one of the
\* eleven undefined opcodes; every other primary opcode and every
\* 0xCB-prefixed opcode completes.
C10_FullSet == (aborted /\ ~debug_build) => opcode \in UndefinedOpcodes

\* C11: a tick that fetches one of the eleven undefined opcodes aborts: it
\* returns no cycle count and leaves the CPU as it was, whatever the state
\* it was executed from and whatever the build.
C11_UndefinedFatal ==
    [][(Ticked /\ opcode' \in UndefinedOpcodes) =>
          /\ aborted'
          /\ cycles' = cycles
          /\ reg' = reg
      ]_vars

\* C11 witness: an undefined opcode was fetched after a lead-in instruction
\* had returned, and the tick aborted
C11_Witness ==
    /\ ticks = 2
    /\ aborted
    /\ opcode = \hED

\* register number i of a register file: 0 b, 1 c, 2 d, 3 e, 4 h, 5 l, 7 a
RegNo(r, i) ==
    CASE i = 0 -> r.b
      [] i = 1 -> r.c
      [] i = 2 -> r.d
      [] i = 3 -> r.e
      [] i = 4 -> r.h
      [] i = 5 -> r.l
      [] i = 7 -> r.a

\* the 8-bit operand number i before the tick; number 6 is the byte at (HL)
Operand8(i) ==
    IF i = 6 THEN read_byte(Machine, reg.h * 256 + reg.l) ELSE RegNo(reg, i)

\* the byte that follows the opcode about to be fetched
Imm8 == read_byte(Machine, (reg.pc + 1) % 65536)

\* flag bit of F as 0 or 1
ZOf(r) == (r.f \div 128) % 2
NOf(r) == (r.f \div 64) % 2
HOf(r) == (r.f \div 32) % 2
COf(r) == (r.f \div 16) % 2

B2N(b) == IF b THEN 1 ELSE 0

\* C12: INC r (04, 0C, 14, 1C, 24, 2C, 3C) leaves (r + 1) mod 256 in the
\* register, sets Z iff that is 0, clears N, sets H iff the low nibble of r
\* was 0xF and keeps C.
C12_IncR8 ==
    [][(Returned /\ opcode' \in {\h04, \h0C, \h14, \h1C, \h24, \h2C, \h3C}) =>
          LET i == opcode' \div 8
              r == RegNo(reg, i)
          IN  /\ RegNo(reg', i) = (r + 1) % 256
              /\ ZOf(reg') = B2N((r + 1) % 256 = 0)
              /\ NOf(reg') = 0
              /\ HOf(reg') = B2N(r % 16 = 15)
              /\ COf(reg') = COf(reg)
      ]_vars

\* C12 witness: INC A has run from A=0x0F, F=0x00 and left A=0x10, F=0x20
C12_Witness ==
    /\ ticks = 1
    /\ ~aborted
    /\ opcode = \h3C
    /\ reg.a = \h10
    /\ reg.f = \h20

\* C13: SUB r (90-97, D6) leaves (A - r) mod 256 in A and F is exactly
\* Z (result 0) | N | H ((A & 0x0F) < (r & 0x0F)) | C (A < r), with the
\* low nibble of F zero.
C13_SubExactFlags ==
    [][(Returned /\ opcode' \in (\h90..\h97) \cup {\hD6}) =>
          LET r == IF opcode' = \hD6 THEN Imm8 ELSE Operand8(opcode' % 8)
              v == (reg.a - r) % 256
          IN  /\ reg'.a = v
              /\ reg'.f = 128 * B2N(v = 0) + 64 + 32 * B2N((reg.a % 16) < (r % 16))
                          + 16 * B2N(reg.a < r)
      ]_vars

\* the operand and the carry-in of a subtract-family opcode before the tick:
\* SUB (90-97, D6), SBC (98-9F, DE), CP (B8-BF, FE)
SubFamily == (\h90..\h9F) \cup (\hB8..\hBF) \cup {\hD6, \hDE, \hFE}

SubOperand(op) == IF op \in {\hD6, \hDE, \hFE} THEN Imm8 ELSE Operand8(op % 8)

SubCarryIn(op) == IF op \in (\h98..\h9F) \cup {\hDE} THEN COf(reg) ELSE 0

\* the flags of the subtract family and of DEC r, with H and C equal to
\* onBorrow when the nibble / the byte borrows and to 1 - onBorrow otherwise
BorrowFlags(onBorrow) ==
    /\ (Returned /\ opcode' \in SubFamily) =>
          LET r == SubOperand(opcode')
              c == SubCarryIn(opcode')
          IN  /\ HOf(reg') = (IF (reg.a % 16) < (r % 16) + c THEN onBorrow ELSE 1 - onBorrow)
              /\ COf(reg') = (IF reg.a < r + c THEN onBorrow ELSE 1 - onBorrow)
    /\ (Returned /\ opcode' \in DecR8) =>
          LET r == Operand8(opcode' \div 8)
          IN  HOf(reg') = (IF r % 16 = 0 THEN onBorrow ELSE 1 - onBorrow)

C15_AddHlFlags ==
    [][(Returned /\ opcode' \in {\h09, \h19, \h29, \h39}) =>
          LET hl == reg.h * 256 + reg.l
              rr == CASE opcode' = \h09 -> reg.b * 256 + reg.c
                      [] opcode' = \h19 -> reg.d * 256 + reg.e
                      [] opcode' = \h29 -> hl
                      [] opcode' = \h39 -> reg.sp
          IN  /\ reg'.h * 256 + reg'.l = (hl + rr) % 65536
              /\ ZOf(reg') = ZOf(reg)
              /\ NOf(reg') = 0
              /\ HOf(reg') = B2N((hl % 4096) + (rr % 4096) > 4095)
              /\ COf(reg') = B2N(hl + rr > 65535)
      ]_vars

\* C16: ADD SP,r8 (E8) leaves (SP + signed(e)) mod 2^16 in SP, clears Z and
\* N, sets H iff (SP & 0x0F) + (e & 0x0F) > 0x0F and C iff
\* (SP & 0xFF) + e > 0xFF, e being the operand byte read as unsigned.
C16_AddSpFlags ==
    [][(Returned /\ opcode' = \hE8) =>
          LET e == Imm8
              s == IF e >= 128 THEN e - 256 ELSE e
          IN  /\ reg'.sp = (reg.sp + s) % 65536
              /\ ZOf(reg') = 0
              /\ NOf(reg') = 0
              /\ HOf(reg') = B2N((reg.sp % 16) + (e % 16) > 15)
              /\ COf(reg') = B2N((reg.sp % 256) + e > 255)
      ]_vars

\* C16 witness: ADD SP,-1 has run from SP=0x0010: SP=0x000F, C set (0x10 +
\* 0xFF > 0xFF) although the 16-bit sum does not carry, H clear
C16_Witness ==
    /\ ticks = 1
    /\ ~aborted
    /\ opcode = \hE8
    /\ reg.sp = \h000F
    /\ COf(reg) = 1
    /\ HOf(reg) = 0

\* C17: LY is between 0 and 153 in every state reached by Vram::update
\* calls and CPU writes to LCDC, STAT, LY and LYC.
C17_LyRange == vram.ly \in 0..153

\* C17 witness: after a write to LYC, updates have taken LY to the last
\* line it reaches before it wraps
C17_Witness ==
    /\ last.fn = "update"
    /\ vram.lyc = 144
    /\ vram.ly = 152

\* C18: on a free run from power-on LY counts the lines 0, 1, ..., 153 of
\* 456 dots each and is back at 0 after 154 * 456 = 70224 dots: after d
\* dots LY is (d div 456) mod 154 and scanline_cycles is d mod 456.
C18_FrameLength ==
    /\ vram.ly = (dots \div 456) % 154
    /\ vram.scanline_cycles = dots % 456

\* number of times kind occurs in the interrupts an update returned
CountOf(interrupts, kind) ==
    Cardinality({i \in 1..Len(interrupts) : interrupts[i] = kind})

\* the update of this step moved LY from 143 to 144
EntersVBlank == dots' # dots /\ vram.ly = 143 /\ vram'.ly = 144

\* C19: the update that moves LY from 143 to 144 returns VBlank exactly
\* once, whatever the STAT enable bits; every other update returns no VBlank.
C19_VBlankOnce ==
    [][/\ EntersVBlank => CountOf(last'.ret, "VBlank") = 1
       /\ (dots' # dots /\ ~EntersVBlank) => CountOf(last'.ret, "VBlank") = 0
      ]_vars

\* C20: the update that moves LY from 143 to 144 returns LcdStat together
\* with VBlank when STAT.vblank_interrupt is set, and VBlank alone when it is
\* clear and no LY==LYC interrupt is due (LYC is not 144 or its enable bit
\* is clear).
C20_VBlankStat ==
    [][EntersVBlank =>
          /\ vram.stat.vblank_interrupt =>
                /\ CountOf(last'.ret, "LcdStat") > 0
                /\ CountOf(last'.ret, "VBlank") > 0
          /\ (~vram.stat.vblank_interrupt
                /\ ~(vram.lyc = 144 /\ vram.stat.lyc_ly_interrupt)) =>
                last'.ret = <<"VBlank">>
      ]_vars

C22_ModeWindows ==
    (last.fn = "update" /\ vram.lcdc.lcd_enable) =>
        /\ (vram.ly < 144 /\ vram.scanline_cycles \in 0..79) =>
              vram.stat.mode_flag = 2
        /\ (vram.ly < 144 /\ vram.scanline_cycles \in 80..251) =>
              vram.stat.mode_flag = 3
        /\ (vram.ly < 144 /\ vram.scanline_cycles \in 252..455) =>
              vram.stat.mode_flag = 0
        /\ vram.ly >= 144 => vram.stat.mode_flag = 1

\* the update of this step reached LY==LYC: it moved LY onto LYC
ReachesLyc == vram'.ly # vram.ly /\ vram'.ly = vram'.lyc

\* C23: an update that changes STAT mode to 2 returns LcdStat if
\* STAT.oam_interrupt is set, an update that changes STAT mode to 0 returns
\* LcdStat if STAT.hblank_interrupt is set, and an update that neither
\* changes the mode nor reaches LY==LYC returns no LcdStat.
C23_ModeEntryStat ==
    [][dots' # dots =>
          /\ (vram'.stat.mode_flag = 2 /\ vram.stat.mode_flag # 2
                /\ vram.stat.oam_interrupt) =>
                CountOf(last'.ret, "LcdStat") > 0
          /\ (vram'.stat.mode_flag = 0 /\ vram.stat.mode_flag # 0
                /\ vram.stat.hblank_interrupt) =>
                CountOf(last'.ret, "LcdStat") > 0
          /\ (vram'.stat.mode_flag = vram.stat.mode_flag /\ ~ReachesLyc) =>
                CountOf(last'.ret, "LcdStat") = 0
      ]_vars

\* C23 witness: with STAT.hblank_interrupt set and the coincidence
\* interrupt disabled, the update that crossed into the H-Blank window has
\* set mode 0 and returned LcdStat
C23_Witness ==
    /\ last.fn = "update"
    /\ vram.stat.hblank_interrupt
    /\ ~vram.stat.lyc_ly_interrupt
    /\ vram.stat.mode_flag = 0
    /\ vram.scanline_cycles \in 253..276
    /\ last.ret = <<"LcdStat">>

\* C24: while the LCD is disabled the PPU holds LY=0 and mode=0: after a
\* write to LCDC that clears bit 7 and after every update made while
\* lcd_enable is 0, LY reads 0 and the STAT mode bits read 0.
C24_DisabledHoldsLine0 ==
    (/\ ~vram.lcdc.lcd_enable
     /\ ~aborted
     /\ last.fn = "update" \/ (last.fn = "write_byte" /\ last.addr = \hFF40)) =>
        /\ Vram_read_byte(vram, \hFF44) = 0
        /\ Vram_read_byte(vram, \hFF41) % 4 = 0

\* C25: every Vram::update made with lcd_enable = 0 returns no interrupt,
\* for every cycle count, LY, LYC, scanline_cycles and STAT enable setting.
C25_DisabledNoInterrupt ==
    [][(last'.fn = "update" /\ ~vram.lcdc.lcd_enable) => last'.ret = <<>>]_vars

\* C25 witness: an update has run with the LCD off, every STAT enable set
\* and LY on line 143 with 304 dots elapsed and LYC=144, where each
\* non-zero cycle count would have ended the line into V-Blank and the
\* coincidence; nothing moved and nothing was returned
C25_Witness ==
    /\ last.fn = "update"
    /\ last.ret = <<>>
    /\ ~vram.lcdc.lcd_enable
    /\ vram.stat.lyc_ly_interrupt
    /\ vram.stat.oam_interrupt
    /\ vram.stat.vblank_interrupt
    /\ vram.stat.hblank_interrupt
    /\ vram.ly = 143
    /\ vram.lyc = 144
    /\ vram.scanline_cycles = 304

\* C26: in every state reached by updates and CPU writes to LCDC, STAT, LY
\* and LYC, request_frame returns Some only when LY is in 144..153 and the
\* PPU is in mode 1.
C26_FrameOnlyInVBlank ==
    (~aborted /\ request_frame(vram)) =>
        /\ vram.ly \in 144..153
        /\ vram.stat.mode_flag = 1

\* the run started from Vram::power_on as it is: no STAT enable, LYC=0
PowerOnRun ==
    /\ vram.lcdc = Lcdc_power_on
    /\ vram.lyc = Vram_power_on.lyc
    /\ ~vram.stat.lyc_ly_interrupt
    /\ ~vram.stat.oam_interrupt
    /\ ~vram.stat.vblank_interrupt
    /\ ~vram.stat.hblank_interrupt

\* C27: on a free run of 70224 dots from power-on in CPU-sized updates,
\* exactly one VBlank is returned in total (by the update that reaches dot
\* 65664), and at every step boundary request_frame returns Some when the
\* elapsed dot count is in 65664..70223 and None otherwise.
C27_OneFrame ==
    [][(PowerOnRun /\ dots' # dots /\ dots' <= 70224) =>
          /\ CountOf(last'.ret, "VBlank") =
                 IF dots < 65664 /\ dots' >= 65664 THEN 1 ELSE 0
          /\ request_frame(vram) <=> dots \in 65664..70223
          /\ request_frame(vram') <=> dots' \in 65664..70223
      ]_vars

\* the step is a Vram::write_byte to addr
WritesTo(addr) == last'.fn = "write_byte" /\ last'.addr = addr

\* C28: while STAT mode is 3 a read of VRAM returns 0xFF and a write to
\* VRAM leaves it unchanged; in modes 0, 1 and 2 a read returns the stored
\* byte and a write stores the byte written.
C28_Mode3Blocked ==
    [][/\ vram'.stat.mode_flag = 3 => Vram_read_byte(vram', \h8000) = \hFF
       /\ (WritesTo(\h8000) /\ vram.stat.mode_flag = 3) =>
              vram'.memory = vram.memory
       /\ (WritesTo(\h8000) /\ vram.stat.mode_flag # 3) =>
              Vram_read_byte(vram', \h8000) \in WriteVals(\h8000)
      ]_vars

\* C29: for every byte v, Lcdc::write_byte(v) followed by read_byte returns
\* v, and PaletteData::write_byte(v) followed by read_byte returns v with
\* colour i equal to bits 2i+1..2i of v, for each of BGP, OBP0 and OBP1.
C29_RoundTrip ==
    \A k \in 1..Len(calls) :
        LET c == calls[k]
            pal == CASE c.fn = "bgp"  -> vram.bgp
                     [] c.fn = "obp0" -> vram.obp0
                     [] c.fn = "obp1" -> vram.obp1
                     [] OTHER -> <<>>
        IN  /\ c.fn = "lcdc" => c.ret = c.arg
            /\ c.fn \in {"bgp", "obp0", "obp1"} =>
                  /\ c.ret = c.arg
                  /\ \A i \in 0..3 : pal[i + 1] = (c.arg \div (4 ^ i)) % 4

\* C29 witness: the byte of the palette_read_write test, 0b11011000, was
\* written to OBP1 and read back; colours 0..3 are White, DarkGray,
\* LightGray, Black
C29_Witness ==
    /\ Len(calls) = 1
    /\ calls[1].fn = "obp1"
    /\ calls[1].arg = \hD8
    /\ calls[1].ret = \hD8
    /\ vram.obp1 = <<0, 2, 1, 3>>

\* C30: every read of STAT returns bit 7 = 1 and mode bits equal to the
\* current mode, and a write to STAT changes only the four interrupt
\* enable bits: the mode, the coincidence flag and everything outside STAT
\* stay as they were.
C30_StatReadWrite ==
    [][/\ Vram_read_byte(vram, \hFF41) \div 128 = 1
       /\ Vram_read_byte(vram', \hFF41) \div 128 = 1
       /\ Vram_read_byte(vram', \hFF41) % 4 = vram'.stat.mode_flag
       /\ WritesTo(\hFF41) =>
              /\ vram'.stat.mode_flag = vram.stat.mode_flag
              /\ vram'.stat.lyc_ly_flag = vram.stat.lyc_ly_flag
              /\ [vram' EXCEPT !.stat = vram.stat] = vram
      ]_vars

\* C31: Stat::write_byte(v) takes every field from v (bit 6
\* lyc_ly_interrupt, bit 5 oam_interrupt, bit 4 vblank_interrupt, bit 3
\* hblank_interrupt, bit 2 the coincidence flag, bits 1-0 the mode flag) and
\* a read after it returns v & 0x7F, for every byte v.
C31_StatRoundTrip ==
    \A k \in 1..Len(calls) :
        LET c == calls[k]
        IN  c.fn = "stat" =>
               /\ vram.stat.lyc_ly_interrupt = ((c.arg \div 64) % 2 = 1)
               /\ vram.stat.oam_interrupt = ((c.arg \div 32) % 2 = 1)
               /\ vram.stat.vblank_interrupt = ((c.arg \div 16) % 2 = 1)
               /\ vram.stat.hblank_interrupt = ((c.arg \div 8) % 2 = 1)
               /\ vram.stat.lyc_ly_flag = ((c.arg \div 4) % 2 = 1)
               /\ vram.stat.mode_flag = c.arg % 4
               /\ c.ret = c.arg % 128

\* C31 witness: the byte of the stat_read_write test with bit 7 added,
\* 0b1110_0101, was written to a Stat and read back as 0b0110_0101
C31_Witness ==
    /\ Len(calls) = 1
    /\ calls[1].fn = "stat"
    /\ calls[1].arg = \hE5
    /\ calls[1].ret = \h65
    /\ vram.stat.lyc_ly_flag
    /\ vram.stat.mode_flag = 1

\* the addresses of the PPU register range
PpuRegs == \hFF40..\hFF4B

\* C32: every address in 0xFF40..0xFF4B is served without a fatal error by
\* Vram::read_byte and Vram::write_byte, and a byte written to BGP, OBP0 or
\* OBP1 through Vram::write_byte is returned by Vram::read_byte of the same
\* address.
C32_PpuRegsServed ==
    [][/\ \A a \in PpuRegs : Vram_read_byte(vram, a) \in Byte
       /\ \A a \in PpuRegs : WritesTo(a) => ~aborted'
       /\ \A a \in {\hFF47, \hFF48, \hFF49} :
              WritesTo(a) => Vram_read_byte(vram', a) \in WriteVals(\hFF47)
      ]_vars

\* C33: the LCD cannot be disabled outside of V-Blank: a write to LCDC with
\* bit 7 clear made in mode 0, 2 or 3 leaves lcd_enable set, and lcd_enable
\* becomes false only by a write to LCDC made in mode 1.
C33_DisableOnlyInVBlank ==
    [][/\ (WritesTo(\hFF40) /\ vram.lcdc.lcd_enable
             /\ vram.stat.mode_flag \in {0, 2, 3} /\ vram.ly < 144) =>
              vram'.lcdc.lcd_enable
       /\ (vram.lcdc.lcd_enable /\ ~vram'.lcdc.lcd_enable) =>
              (WritesTo(\hFF40) /\ vram.stat.mode_flag = 1)
      ]_vars

\* C34: the STAT coincidence flag is set exactly when LY == LYC in every
\* state reached from power-on by updates and writes to LYC, LY and STAT,
\* and the update that moves LY onto LYC returns LcdStat if
\* STAT.lyc_ly_interrupt is set and, when no mode entry adds one, only then.
C34_CoincidenceFlag ==
    [][/\ vram.stat.lyc_ly_flag <=> (vram.ly = vram.lyc)
       /\ vram'.stat.lyc_ly_flag <=> (vram'.ly = vram'.lyc)
       /\ (last'.fn = "update" /\ ReachesLyc /\ vram.stat.lyc_ly_interrupt) =>
              CountOf(last'.ret, "LcdStat") > 0
       /\ (last'.fn = "update" /\ ReachesLyc /\ ~vram.stat.lyc_ly_interrupt
             /\ vram'.stat.mode_flag = vram.stat.mode_flag) =>
              CountOf(last'.ret, "LcdStat") = 0
      ]_vars

\* t = floor(ns / 238.41858): t * 238.41858 <= ns < (t + 1) * 238.41858,
\* with 238.41858 taken apart as 238 + 41858 / 100000
IsFloorOfQuotient(t, ns) ==
    /\ (ns - 238 * t) * 100000 >= 41858 * t
    /\ (ns - 238 * (t + 1)) * 100000 < 41858 * (t + 1)

\* C35: in each iteration of the main loop with the debugger off the
\* target is floor(elapsed_ns / 238.41858); Gameboy.step is called only
\* while emulated_cycles < target and its count is added; when the inner
\* loop is left emulated_cycles >= target and the overshoot is smaller than
\* the count of the last step; emulated_cycles never decreases.
C35_CatchUpLoop ==
    [][/\ (host.pc = "loop" /\ host'.pc = "catch_up") =>
              IsFloorOfQuotient(host'.target_emu_cycles, host'.target_emu_time_ns)
       /\ host'.emulated_cycles # host.emulated_cycles =>
              /\ host.emulated_cycles < host.target_emu_cycles
              /\ host'.emulated_cycles = host.emulated_cycles + host'.step_ret
       /\ (host.pc = "catch_up" /\ host'.pc = "loop") =>
              /\ host.emulated_cycles >= host.target_emu_cycles
              /\ host.step_ret # 0 =>
                    host.emulated_cycles - host.target_emu_cycles < host.step_ret
       /\ host'.emulated_cycles >= host.emulated_cycles
      ]_vars

\* C38: the catch-up loop terminates: whenever the host is in the inner
\* loop, emulated_cycles reaches the target after finitely many steps
\* (unless a step panics and never returns), every step that returns adding
\* at least 1 cycle.
C38_CatchUpTerminates ==
    /\ [][host'.step_ret # host.step_ret /\ host'.pc = "catch_up"
            /\ host.pc = "catch_up" => host'.step_ret >= 1]_vars
    /\ (host.pc = "catch_up") ~>
           (host.emulated_cycles >= host.target_emu_cycles \/ host.pc = "panicked")

\* C38 witness: the inner loop has caught up with a target of 657 cycles
\* from 0, the last of its steps returning 24
C38_Witness ==
    /\ host.pc = "loop"
    /\ host.target_emu_time_ns = 156641
    /\ host.target_emu_cycles = 657
    /\ host.emulated_cycles = 680
    /\ host.step_ret = 24

\* C36: Cpu::rl rotates left through carry: for every byte r and carry-in
\* c it returns ((r << 1) mod 256) | c, sets C to bit 7 of r, clears N and
\* H and sets Z iff the result is 0; applied three times from power-on to
\* 0b0110_0101 it yields 0b1100_1011, 0b1001_0110, 0b0010_1101.
C36_RlThroughCarry ==
    /\ \A k \in 1..Len(calls) :
          LET c == calls[k]
          IN  c.fn = "rl" =>
                 /\ c.ret = ((c.arg * 2) % 256) + c.cin
                 /\ (c.f \div 16) % 2 = (c.arg \div 128)
                 /\ (c.f \div 32) % 4 = 0
                 /\ ((c.f \div 128) = 1) <=> (c.ret = 0)
    /\ (Len(calls) >= 1 /\ calls[1].fn = "rl" /\ calls[1].arg = \h65
          /\ calls[1].cin = 1) =>
          \A k \in 1..Len(calls) :
              k <= 3 => calls[k].ret = <<\hCB, \h96, \h2D>>[k]

\* C37: with the LCD enabled, no register writes and updates of 1 to 24
\* cycles, STAT mode changes only along 2->3, 3->0, 0->2 (next visible
\* line), 0->1 (LY 143->144) and 1->2 (LY wraps to 0); every visible line
\* starts in mode 2 and ends in mode 0, so that modes 2, 3 and 0 are all
\* seen on it in that order.
C37_ModeOrder ==
    [][/\ vram'.stat.mode_flag # vram.stat.mode_flag =>
              \/ /\ vram.stat.mode_flag = 2 /\ vram'.stat.mode_flag = 3
                 /\ vram'.ly = vram.ly
              \/ /\ vram.stat.mode_flag = 3 /\ vram'.stat.mode_flag = 0
                 /\ vram'.ly = vram.ly
              \/ /\ vram.stat.mode_flag = 0 /\ vram'.stat.mode_flag = 2
                 /\ vram'.ly = vram.ly + 1 /\ vram'.ly < 144
              \/ /\ vram.stat.mode_flag = 0 /\ vram'.stat.mode_flag = 1
                 /\ vram.ly = 143 /\ vram'.ly = 144
              \/ /\ vram.stat.mode_flag = 1 /\ vram'.stat.mode_flag = 2
                 /\ vram'.ly = 0
       /\ (vram'.ly # vram.ly /\ vram.ly < 144) => vram.stat.mode_flag = 0
       /\ (vram'.ly # vram.ly /\ vram'.ly < 144) => vram'.stat.mode_flag = 2
      ]_vars

\* C37 witness: a whole frame has gone by: LY has wrapped onto LYC = 0
\* (only the end of the last line sets the coincidence flag) and the mode
\* has gone from 1 back to 2
C37_Witness ==
    /\ last.fn = "update"
    /\ vram.ly = 0
    /\ vram.stat.lyc_ly_flag
    /\ vram.stat.mode_flag = 2
    /\ vram.scanline_cycles = 7

\* memory as the tick of this step leaves it
MemAfter == [ram |-> ram', inte |-> inte', intf |-> intf']

\* C39: CALL a16, or a taken CALL cc, at address p sets PC = a16 and pushes
\* p + 3; a RET executed next sets PC to p + 3 and SP to its value before
\* the CALL; RST n pushes the address after its opcode and sets PC to n.
C39_CallRetRoundTrip ==
    [][ticks' = ticks + 1 =>
          /\ (opcode' = \hCD \/ (opcode' \in CallCc /\ TakenBefore(opcode'))) =>
                /\ ~aborted'
                /\ reg'.pc = read_word(Machine, reg.pc + 1)
                /\ reg'.sp = reg.sp - 2
                /\ read_word(MemAfter, reg'.sp) = reg.pc + 3
          /\ (opcode' = \hC9 /\ opcode \in {\hCD} \cup CallCc) =>
                /\ ~aborted'
                /\ reg'.pc = reg.pc - 1
                /\ reg'.pc = EntryPoint + Len(prog) - 2
                /\ reg'.sp = reg.sp + 2
                /\ reg'.sp \in CallSps
          /\ opcode' \in Rst =>
                /\ ~aborted'
                /\ reg'.pc = opcode' - \hC7
                /\ reg'.sp = reg.sp - 2
                /\ read_word(MemAfter, reg'.sp) = reg.pc + 1
      ]_vars

\* C39 witness: NOP; CALL Z,0x0105; RET has run with SP = 0xE000: the RET
\* at 0x0105 has brought PC to 0x0104, the byte after the CALL at 0x0101,
\* and SP back to 0xE000
C39_Witness ==
    /\ ~aborted
    /\ ticks = 3
    /\ prog = <<\h00, \hCC, \h05, \h01, \h00, \hC9>>
    /\ opcode = \hC9
    /\ reg.pc = \h0104
    /\ reg.sp = \hE000

\* C40: 16-bit register arithmetic inside Cpu::tick wraps modulo 2^16 and
\* never aborts: a POP with SP > 0xFFFD and a PUSH with SP < 2 wrap SP,
\* LD (HL+),A / LD A,(HL+) with HL = 0xFFFF leave HL = 0x0000 and
\* LD (HL-),A / LD A,(HL-) with HL = 0x0000 leave HL = 0xFFFF.
C40_WrapNoAbort ==
    [][ticks' = ticks + 1 =>
          /\ (opcode' \in {\hC1, \hD1, \hE1, \hF1} /\ reg.sp > \hFFFD) =>
                (~aborted' /\ reg'.sp = (reg.sp + 2) % 65536)
          /\ (opcode' \in {\hC5, \hD5, \hE5, \hF5} /\ reg.sp < 2) =>
                (~aborted' /\ reg'.sp = (reg.sp - 2) % 65536)
          /\ (opcode' \in {\h22, \h2A} /\ get_hl(reg) = \hFFFF) =>
                (~aborted' /\ get_hl(reg') = 0)
          /\ (opcode' \in {\h32, \h3A} /\ get_hl(reg) = 0) =>
                (~aborted' /\ get_hl(reg') = \hFFFF)
      ]_vars

====
